---- MODULE Spec2Model ----
(***************************************************************************)
(* Authorization bypass detection engine of rep-chrome:                    *)
(* ResponseComparator.compare / normalizeBody / sortObject / detectBypass  *)
(* (src/js/features/auth-analyzer/integration-snippet.js).                 *)
(*                                                                         *)
(* JavaScript values are records tagged by their type in field k.  Text is *)
(* a sequence of one-character strings, so that the whitespace rewriting   *)
(* and the JSON round trip of normalizeBody are computed, not assumed.     *)
(***************************************************************************)
EXTENDS Integers, Sequences, FiniteSets, TLC

\* The comparator: the arguments and the outcome of the call in progress.
VARIABLES originalResponse, replayedResponse, sessionPrivilege, result, verdict, lengthLog, op,
          steps

comparatorVars ==
    <<originalResponse, replayedResponse, sessionPrivilege, result, verdict, lengthLog, op, steps>>

\* normalizeBody applied to two related bodies: the documents and the texts they
\* were written from, how the two are related, the two canonical texts, and the
\* canonical texts of those.
VARIABLES documents, bodies, relation, normalized, renormalized
normalizeVars == <<documents, bodies, relation, normalized, renormalized>>

\* The result log and what is shown of it: the log of the analyzer, everything
\* recorded so far and how much of it a clear has removed, the results panel, the
\* console warnings, the badge of the toolbar button, and the last operation.
VARIABLES results, history, clearedAt, panel, warnings, badge, logOp
logVars == <<results, history, clearedAt, panel, warnings, badge, logOp>>

\* The test of one request against the active sessions: the sessions in the order
\* they are tested, the replays in flight, the replays completed (in completion
\* order, each with its verdict), the session results collected so far, the
\* result handed back, the stage of the test, the Test Auth button, the last
\* alert shown, the calls of processRequest not settled yet and what the click
\* that last called it found (the analyzer's switches, the selected item, the
\* requests listed).
VARIABLES tested, inFlight, completion, sessionResults, checkResult, replayOp, testAuthBtn, alert,
          pending, clickedWith
replayVars ==
    <<tested, inFlight, completion, sessionResults, checkResult, replayOp, testAuthBtn, alert,
      pending, clickedWith>>

\* The sessions of the analyzer and their use: the sessions saved through the
\* editor, the editor's modal, its last alert, and the last replay prepared (the
\* session, the headers of the captured request and the headers sent).
VARIABLES savedSessions, sessionModal, sessionAlert, replayed
sessionVars == <<savedSessions, sessionModal, sessionAlert, replayed>>

\* Capture of network requests: state.blockRequests, state.requests,
\* state.blockedQueue, state.starredPages, state.starredDomains; the number of
\* 'block-queue:updated' events emitted; and, for the properties, the requests in
\* arrival order and those handed to processCapturedRequest.
VARIABLES blockRequests, requests, blockedQueue, starredPages, starredDomains, blockEvents,
          arrivals, processed
captureVars == <<blockRequests, requests, blockedQueue, starredPages, starredDomains,
                 blockEvents, arrivals, processed>>

\* The extractor's scan: the start-scan button, where the click handler stands,
\* the handlers started and not finished, the scans started, the JavaScript files
\* of the scan and those gone through, the progress box, the timers set to hide
\* it, and the way the last scan ended.
VARIABLES startScanBtn, scanPc, scansRunning, scansStarted, totalFiles, filesProcessed,
          extractorProgress, hideTimers, scanExit
scanVars == <<startScanBtn, scanPc, scansRunning, scansStarted, totalFiles, filesProcessed,
              extractorProgress, hideTimers, scanExit>>

\* The raw request editor and its history: the text shown, state.undoStack,
\* state.redoStack, whether the last click announced new button states; and, for
\* the properties, the last two operations with the text shown before each.
VARIABLES rawRequestInput, undoStack, redoStack, historyEmitted, historyOp, lastShown, prevOp,
          prevShown
historyVars == <<rawRequestInput, undoStack, redoStack, historyEmitted, historyOp, lastShown,
                 prevOp, prevShown>>

\* The state outside the comparator.
otherVars ==
    <<normalizeVars, logVars, replayVars, sessionVars, captureVars, scanVars, historyVars>>

vars == <<comparatorVars, otherVars>>

(***************************************************************************)
(* JavaScript values                                                       *)
(***************************************************************************)
Undefined == [k |-> "undefined"]

Null == [k |-> "null"]

Bool(b) == [k |-> "boolean", b |-> b]

Num(n) == [k |-> "number", n |-> n]

Str(s) == [k |-> "string", s |-> s]

\* ToBoolean: what `if (v)`, `!v` and `v || w` test.
Truthy(v) ==
    CASE v.k = "undefined" -> FALSE
      [] v.k = "null" -> FALSE
      [] v.k = "boolean" -> v.b
      [] v.k = "number" -> v.n # 0
      [] v.k = "string" -> Len(v.s) > 0
      [] OTHER -> TRUE

\* The === operator on the values above (no NaN in the model).
StrictEquals(v, w) == v = w

(***************************************************************************)
(* Text: the regular expressions of normalizeBody                          *)
(***************************************************************************)
\* The characters the class \s matches, of those the model's bodies use.
IsSpace(c) == c \in {" ", "\n", "\t"}

\* body.replace(/\s+/g, ' '): every maximal run of whitespace becomes one space.
RECURSIVE CollapseFrom(_, _, _)
CollapseFrom(s, i, inRun) ==
    IF i > Len(s) THEN <<>>
    ELSE IF IsSpace(s[i])
         THEN (IF inRun THEN <<>> ELSE <<" ">>) \o CollapseFrom(s, i + 1, TRUE)
         ELSE <<s[i]>> \o CollapseFrom(s, i + 1, FALSE)

CollapseWhitespace(s) == CollapseFrom(s, 1, FALSE)

\* The end of the whitespace run that starts at position i (i itself when there is none).
RECURSIVE SkipSpace(_, _)
SkipSpace(s, i) == IF i <= Len(s) /\ IsSpace(s[i]) THEN SkipSpace(s, i + 1) ELSE i

\* .replace(/>\s+</g, '><'): matches are found left to right and do not overlap, the
\* '<' that ends a match is consumed by it.
RECURSIVE StripFrom(_, _)
StripFrom(s, i) ==
    IF i > Len(s) THEN <<>>
    ELSE LET j == SkipSpace(s, i + 1)
         IN IF s[i] = ">" /\ j > i + 1 /\ j <= Len(s) /\ s[j] = "<"
            THEN <<">", "<">> \o StripFrom(s, j + 1)
            ELSE <<s[i]>> \o StripFrom(s, i + 1)

StripBetweenTags(s) == StripFrom(s, 1)

RECURSIVE TrimEnd(_)
TrimEnd(s) == IF Len(s) > 0 /\ IsSpace(s[Len(s)]) THEN TrimEnd(SubSeq(s, 1, Len(s) - 1)) ELSE s

\* String.prototype.trim
Trim(s) == TrimEnd(SubSeq(s, SkipSpace(s, 1), Len(s)))

(***************************************************************************)
(* JSON.parse, JSON.stringify                                              *)
(*                                                                         *)
(* The bodies of the model are written with letters, digits, whitespace    *)
(* and the punctuation of JSON and of markup; they hold no backslash, no   *)
(* sign, fraction or exponent, so string escapes and number formats other  *)
(* than non-negative integers are outside the model.                       *)
(***************************************************************************)
Array(items) == [k |-> "array", items |-> items]

\* An object is its own properties in enumeration order, each <<key, value>>.
Object(props) == [k |-> "object", props |-> props]

Digits == <<"0", "1", "2", "3", "4", "5", "6", "7", "8", "9">>

IsDigit(c) == \E d \in 1..Len(Digits) : Digits[d] = c

DigitVal(c) == (CHOOSE d \in 1..Len(Digits) : Digits[d] = c) - 1

\* The printable ASCII characters in code order: from the space (32) to the
\* underscore (95), and from "a" (97) to the tilde (126).
AsciiLow ==
    <<" ", "!", "\"", "#", "$", "%", "&", "'", "(", ")", "*", "+", ",", "-", ".", "/",
      "0", "1", "2", "3", "4", "5", "6", "7", "8", "9", ":", ";", "<", "=", ">", "?",
      "@", "A", "B", "C", "D", "E", "F", "G", "H", "I", "J", "K", "L", "M", "N", "O",
      "P", "Q", "R", "S", "T", "U", "V", "W", "X", "Y", "Z", "[", "\\", "]", "^", "_">>

AsciiHigh ==
    <<"a", "b", "c", "d", "e", "f", "g", "h", "i", "j", "k", "l", "m", "n", "o",
      "p", "q", "r", "s", "t", "u", "v", "w", "x", "y", "z", "{", "|", "}", "~">>

\* The UTF-16 code unit of a character (tab and line feed come before the space).
CharCode(c) ==
    CASE c = "\t" -> 9
      [] c = "\n" -> 10
      [] \E i \in 1..Len(AsciiLow) : AsciiLow[i] = c ->
            31 + (CHOOSE i \in 1..Len(AsciiLow) : AsciiLow[i] = c)
      [] OTHER -> 96 + (CHOOSE i \in 1..Len(AsciiHigh) : AsciiHigh[i] = c)

\* a < b as Array.prototype.sort compares two strings without a comparator:
\* by code units, a proper prefix first.
RECURSIVE StringLess(_, _)
StringLess(a, b) ==
    IF Len(b) = 0 THEN FALSE
    ELSE IF Len(a) = 0 THEN TRUE
    ELSE IF a[1] = b[1] THEN StringLess(Tail(a), Tail(b))
    ELSE CharCode(a[1]) < CharCode(b[1])

RECURSIVE DigitsToNat(_, _)
DigitsToNat(s, acc) ==
    IF Len(s) = 0 THEN acc ELSE DigitsToNat(Tail(s), 10 * acc + DigitVal(s[1]))

RECURSIVE NatToDigits(_)
NatToDigits(n) ==
    IF n < 10 THEN <<Digits[n + 1]>> ELSE NatToDigits(n \div 10) \o <<Digits[(n % 10) + 1]>>

\* A property key that is an array index ("0", "7", "12", no leading zero): objects
\* enumerate these first, in ascending numeric order, whatever the insertion order.
IsArrayIndex(key) ==
    /\ Len(key) > 0
    /\ \A i \in 1..Len(key) : IsDigit(key[i])
    /\ (Len(key) > 1 => key[1] # "0")

HasKey(props, key) == \E i \in 1..Len(props) : props[i][1] = key

\* obj[key] = val on an ordinary object: an existing key keeps its place, a new
\* array-index key goes among the index keys in numeric order, any other new key
\* goes last.
PutProp(props, key, val) ==
    IF HasKey(props, key)
    THEN [i \in 1..Len(props) |-> IF props[i][1] = key THEN <<key, val>> ELSE props[i]]
    ELSE IF IsArrayIndex(key)
         THEN LET before == Cardinality({i \in 1..Len(props) :
                                 /\ IsArrayIndex(props[i][1])
                                 /\ DigitsToNat(props[i][1], 0) < DigitsToNat(key, 0)})
              IN SubSeq(props, 1, before) \o <<<<key, val>>>> \o SubSeq(props, before + 1, Len(props))
         ELSE Append(props, <<key, val>>)

\* Object.keys(obj)
Keys(props) == [i \in 1..Len(props) |-> props[i][1]]

GetProp(props, key) == props[CHOOSE i \in 1..Len(props) : props[i][1] = key][2]

\* Fault variant of SortKeys: Object.keys(obj) without the sort.
SortKeysUnsorted(keys) == keys

\* Fault variant of SortKeys: Object.keys(obj).reverse().
SortKeysReversed(keys) == [i \in 1..Len(keys) |-> keys[Len(keys) + 1 - i]]

\* Array.prototype.sort() on distinct strings.
RECURSIVE SortKeys(_)
SortKeys(keys) ==
    IF Len(keys) = 0 THEN <<>>
    ELSE LET m == CHOOSE i \in 1..Len(keys) : \A j \in 1..Len(keys) : ~StringLess(keys[j], keys[i])
         IN <<keys[m]>> \o SortKeys(SubSeq(keys, 1, m - 1) \o SubSeq(keys, m + 1, Len(keys)))

\* The whitespace JSON allows between tokens.
IsJsonSpace(c) == c \in {" ", "\n", "\t"}

RECURSIVE SkipJsonSpace(_, _)
SkipJsonSpace(s, i) == IF i <= Len(s) /\ IsJsonSpace(s[i]) THEN SkipJsonSpace(s, i + 1) ELSE i

\* A parse step: whether it succeeded, the value read, the position after it.
Parsed(v, next) == [ok |-> TRUE, v |-> v, next |-> next]

SyntaxError == [ok |-> FALSE, v |-> Null, next |-> 0]

StartsWith(s, i, word) ==
    /\ i + Len(word) - 1 <= Len(s)
    /\ \A j \in 1..Len(word) : s[i + j - 1] = word[j]

\* The end of the run of digits that starts at i.
RECURSIVE SkipDigits(_, _)
SkipDigits(s, i) == IF i <= Len(s) /\ IsDigit(s[i]) THEN SkipDigits(s, i + 1) ELSE i

\* The closing quote of the string whose text starts at i, 0 when the string is
\* unterminated or holds a raw control character.
RECURSIVE StringEnd(_, _)
StringEnd(s, i) ==
    IF i > Len(s) THEN 0
    ELSE IF s[i] = "\"" THEN i
    ELSE IF s[i] \in {"\n", "\t", "\\"} THEN 0
    ELSE StringEnd(s, i + 1)

ParseString(s, i) ==
    IF i > Len(s) \/ s[i] # "\"" THEN SyntaxError
    ELSE LET e == StringEnd(s, i + 1)
         IN IF e = 0 THEN SyntaxError ELSE Parsed(Str(SubSeq(s, i + 1, e - 1)), e + 1)

ParseNumber(s, i) ==
    LET e == SkipDigits(s, i)
    IN IF s[i] = "0" THEN Parsed(Num(0), i + 1)
       ELSE Parsed(Num(DigitsToNat(SubSeq(s, i, e - 1), 0)), e)

RECURSIVE ParseValue(_, _), ParseElements(_, _, _), ParseMembers(_, _, _)
\* value, with the whitespace before it; the whitespace after it is left to the caller.
ParseValue(s, i0) ==
    LET i == SkipJsonSpace(s, i0)
    IN IF i > Len(s) THEN SyntaxError
       ELSE IF s[i] = "{"
            THEN LET j == SkipJsonSpace(s, i + 1)
                 IN IF j <= Len(s) /\ s[j] = "}" THEN Parsed(Object(<<>>), j + 1)
                    ELSE ParseMembers(s, j, <<>>)
       ELSE IF s[i] = "["
            THEN LET j == SkipJsonSpace(s, i + 1)
                 IN IF j <= Len(s) /\ s[j] = "]" THEN Parsed(Array(<<>>), j + 1)
                    ELSE ParseElements(s, j, <<>>)
       ELSE IF s[i] = "\"" THEN ParseString(s, i)
       ELSE IF IsDigit(s[i]) THEN ParseNumber(s, i)
       ELSE IF StartsWith(s, i, <<"t", "r", "u", "e">>) THEN Parsed(Bool(TRUE), i + 4)
       ELSE IF StartsWith(s, i, <<"f", "a", "l", "s", "e">>) THEN Parsed(Bool(FALSE), i + 5)
       ELSE IF StartsWith(s, i, <<"n", "u", "l", "l">>) THEN Parsed(Null, i + 4)
       ELSE SyntaxError

\* The elements of an array from position i on, up to and including the ']'.
ParseElements(s, i, items) ==
    LET e == ParseValue(s, i)
        j == SkipJsonSpace(s, e.next)
    IN IF ~e.ok \/ j > Len(s) THEN SyntaxError
       ELSE IF s[j] = "]" THEN Parsed(Array(Append(items, e.v)), j + 1)
       ELSE IF s[j] = "," THEN ParseElements(s, j + 1, Append(items, e.v))
       ELSE SyntaxError

\* The members of an object from position i on, up to and including the '}'; a
\* repeated key keeps its first place and takes the last value.
ParseMembers(s, i0, props) ==
    LET i == SkipJsonSpace(s, i0)
        key == ParseString(s, i)
        c == SkipJsonSpace(s, key.next)
    IN IF ~key.ok \/ c > Len(s) \/ s[c] # ":" THEN SyntaxError
       ELSE LET e == ParseValue(s, c + 1)
                j == SkipJsonSpace(s, e.next)
            IN IF ~e.ok \/ j > Len(s) THEN SyntaxError
               ELSE IF s[j] = "}" THEN Parsed(Object(PutProp(props, key.v.s, e.v)), j + 1)
               ELSE IF s[j] = "," THEN ParseMembers(s, j + 1, PutProp(props, key.v.s, e.v))
               ELSE SyntaxError

\* JSON.parse(text): one value, with nothing but whitespace around it.
JSONparse(s) ==
    LET e == ParseValue(s, 1)
    IN IF e.ok /\ SkipJsonSpace(s, e.next) > Len(s) THEN e ELSE SyntaxError

RECURSIVE Join(_, _)
Join(parts, sep) ==
    IF Len(parts) = 0 THEN <<>>
    ELSE IF Len(parts) = 1 THEN parts[1]
    ELSE parts[1] \o sep \o Join(Tail(parts), sep)

\* JSON.stringify(v) without indentation.
RECURSIVE JSONstringify(_)
JSONstringify(v) ==
    CASE v.k = "null" -> <<"n", "u", "l", "l">>
      [] v.k = "boolean" -> IF v.b THEN <<"t", "r", "u", "e">> ELSE <<"f", "a", "l", "s", "e">>
      [] v.k = "number" -> NatToDigits(v.n)
      [] v.k = "string" -> <<"\"">> \o v.s \o <<"\"">>
      [] v.k = "array" ->
            <<"[">> \o Join([i \in 1..Len(v.items) |-> JSONstringify(v.items[i])], <<",">>) \o <<"]">>
      [] v.k = "object" ->
            <<"{">> \o Join([i \in 1..Len(v.props) |->
                               <<"\"">> \o v.props[i][1] \o <<"\"", ":">> \o JSONstringify(v.props[i][2])],
                            <<",">>) \o <<"}">>

(***************************************************************************)
(* ResponseComparator                                                      *)
(***************************************************************************)
\* Deep sort of object keys: primitives as they are, arrays element by element, an
\* object rebuilt by assigning its keys in sorted order to a fresh object.
RECURSIVE sortObject(_), AssignSorted(_, _, _)
sortObject(obj) ==
    IF obj.k \notin {"array", "object"} THEN obj
    ELSE IF obj.k = "array" THEN Array([i \in 1..Len(obj.items) |-> sortObject(obj.items[i])])
    ELSE Object(AssignSorted(obj.props, SortKeys(Keys(obj.props)), <<>>))

\* The forEach of sortObject: sorted[key] = sortObject(obj[key]) for each key in turn.
AssignSorted(props, keys, sorted) ==
    IF Len(keys) = 0 THEN sorted
    ELSE AssignSorted(props, Tail(keys),
                      PutProp(sorted, keys[1], sortObject(GetProp(props, keys[1]))))

\* Fault variant of normalizeText: the text is not trimmed.
normalizeTextUntrimmed(s) == StripBetweenTags(CollapseWhitespace(s))

\* Fault variant of normalizeText: whitespace between tags is collapsed, not removed.
normalizeTextKeepTagSpace(s) == Trim(CollapseWhitespace(s))

\* The catch branch of normalizeBody: the body as plain text.
normalizeText(s) == Trim(StripBetweenTags(CollapseWhitespace(s)))

\* Fault variant of normalizeBody: the guard tests `body === undefined` in place of
\* `!body`, so null reaches JSON.parse (which reads it as the text null) and the
\* empty string reaches the text branch.
normalizeBodyUndefinedOnly(body) ==
    IF body.k = "undefined" THEN <<>>
    ELSE IF body.k = "null" THEN JSONstringify(Null)
    ELSE LET parsed == JSONparse(body.s)
         IN IF parsed.ok THEN JSONstringify(sortObject(parsed.v)) ELSE normalizeText(body.s)

\* normalizeBody(body): the canonical text of a body (a sequence of characters).
normalizeBody(body) ==
    IF ~Truthy(body) THEN <<>>
    ELSE LET parsed == JSONparse(body.s)
         IN IF parsed.ok THEN JSONstringify(sortObject(parsed.v)) ELSE normalizeText(body.s)

\* A response as compare reads it; a field the object lacks is Undefined.
Response(status, body, error) == [status |-> status, body |-> body, error |-> error]

\* `(response.body || '').substring(0, 200)` and `body.replace(...)` need a string:
\* a truthy body of another type raises a TypeError.
BodyIsText(body) == ~Truthy(body) \/ body.k = "string"

statusMatch(originalResponse_, replayedResponse_) ==
    StrictEquals(originalResponse_.status, replayedResponse_.status)

\* lengthDiff and the two terms of lengthPercent = lengthDiff / max(originalLength, 1),
\* which compare logs when the status matches and the bodies differ.
lengthDelta(normalizedOriginal, normalizedReplayed) ==
    LET originalLength == Len(normalizedOriginal)
        replayedLength == Len(normalizedReplayed)
        lengthDiff == IF originalLength >= replayedLength
                      THEN originalLength - replayedLength
                      ELSE replayedLength - originalLength
    IN [lengthDiff |-> lengthDiff,
        base |-> IF originalLength > 1 THEN originalLength ELSE 1]

\* Fault variant of compareNormalized: equal bodies are SAME whatever the status.
compareNormalizedBodyFirst(statusMatch_, normalizedOriginal, normalizedReplayed) ==
    IF normalizedOriginal = normalizedReplayed THEN "SAME"
    ELSE IF statusMatch_ THEN "SIMILAR"
    ELSE "DIFFERENT"

\* Fault variant of compareNormalized: the length percentage gates the verdict, as
\* the comment "same status + +-5% body length" of the source announces.
compareNormalizedThreshold(statusMatch_, normalizedOriginal, normalizedReplayed) ==
    IF statusMatch_ /\ normalizedOriginal = normalizedReplayed THEN "SAME"
    ELSE IF statusMatch_
         THEN LET d == lengthDelta(normalizedOriginal, normalizedReplayed)
              IN IF 100 * d.lengthDiff <= 5 * d.base THEN "SIMILAR" ELSE "DIFFERENT"
         ELSE "DIFFERENT"

\* Fault variant of compareNormalized: a differing body is SIMILAR only when the
\* replayed one is not the shorter of the two.
compareNormalizedLonger(statusMatch_, normalizedOriginal, normalizedReplayed) ==
    IF statusMatch_ /\ normalizedOriginal = normalizedReplayed THEN "SAME"
    ELSE IF statusMatch_ /\ Len(normalizedReplayed) >= Len(normalizedOriginal) THEN "SIMILAR"
    ELSE "DIFFERENT"

\* The tail of compare, from the test for SAME on: the verdict for a status match
\* and two normalized bodies.  lengthDiff and lengthPercent are computed and logged
\* on the way to SIMILAR and nothing reads them.
compareNormalized(statusMatch_, normalizedOriginal, normalizedReplayed) ==
    IF statusMatch_ /\ normalizedOriginal = normalizedReplayed
    THEN "SAME"
    ELSE IF statusMatch_
         THEN IF Len(normalizedOriginal) = 0 /\ Len(normalizedReplayed) = 0
              THEN "SAME"
              ELSE "SIMILAR"
         ELSE "DIFFERENT"

\* Fault variant of compare: a status mismatch is reported before the error
\* indicator is looked at.
compareStatusFirst(originalResponse_, replayedResponse_) ==
    IF ~statusMatch(originalResponse_, replayedResponse_) THEN "DIFFERENT"
    ELSE IF Truthy(replayedResponse_.error) THEN "ERROR"
    ELSE compareNormalized(TRUE, normalizeBody(originalResponse_.body),
                           normalizeBody(replayedResponse_.body))

\* Fault variant of compare: the bodies are compared as received, not normalized.
compareRawBodies(originalResponse_, replayedResponse_) ==
    IF Truthy(replayedResponse_.error) THEN "ERROR"
    ELSE compareNormalized(statusMatch(originalResponse_, replayedResponse_),
                           IF Truthy(originalResponse_.body) THEN originalResponse_.body.s ELSE <<>>,
                           IF Truthy(replayedResponse_.body) THEN replayedResponse_.body.s ELSE <<>>)

\* Fault variant of compare: the error indicator of either response yields ERROR.
compareEitherError(originalResponse_, replayedResponse_) ==
    IF Truthy(replayedResponse_.error) \/ Truthy(originalResponse_.error) THEN "ERROR"
    ELSE compareNormalized(statusMatch(originalResponse_, replayedResponse_),
                           normalizeBody(originalResponse_.body),
                           normalizeBody(replayedResponse_.body))

\* Fault variant of compare: normalizeBody has no try/catch around JSON.parse, so a
\* body that is not JSON raises (a SyntaxError, reported like any exception).
compareNoCatch(originalResponse_, replayedResponse_) ==
    IF Truthy(replayedResponse_.error) THEN "ERROR"
    ELSE IF \E b \in {originalResponse_.body, replayedResponse_.body} :
                Truthy(b) /\ ~JSONparse(b.s).ok
         THEN "TypeError"
    ELSE compareNormalized(statusMatch(originalResponse_, replayedResponse_),
                           normalizeBody(originalResponse_.body),
                           normalizeBody(replayedResponse_.body))

\* compare(originalResponse, replayedResponse): SAME, SIMILAR, DIFFERENT or ERROR;
\* TypeError when it throws.
compare(originalResponse_, replayedResponse_) ==
    IF Truthy(replayedResponse_.error) THEN "ERROR"
    ELSE IF ~BodyIsText(originalResponse_.body) \/ ~BodyIsText(replayedResponse_.body)
         THEN "TypeError"
    ELSE compareNormalized(statusMatch(originalResponse_, replayedResponse_),
                           normalizeBody(originalResponse_.body),
                           normalizeBody(replayedResponse_.body))

\* Fault variant of compareSteps: both bodies are normalized at the top of compare,
\* ahead of the test of the error indicator.
compareStepsNormalizeFirst(originalResponse_, replayedResponse_) ==
    <<"normalizeOriginal", "normalizeReplayed", "statusMatch", "errorCheck">>
        \o (IF Truthy(replayedResponse_.error) THEN <<>> ELSE <<"testSame">>)
        \o <<"return">>

\* The statements of compare after the test for SAME has failed: with a status
\* match the test of the two lengths (line 305) and either the return of SAME for
\* two empty bodies (306-307) or the length figures (310-314).
stepsAfterSame(statusMatch_, normalizedOriginal, normalizedReplayed) ==
    IF ~statusMatch_ THEN <<>>
    ELSE <<"testBothEmpty">>
            \o (IF Len(normalizedOriginal) = 0 /\ Len(normalizedReplayed) = 0
                THEN <<"bothEmpty">> ELSE <<"lengthDelta">>)

\* Fault variant of compareSteps: the test for SAME compares the bodies as they
\* came, not their normalized texts.
compareStepsRawEquality(originalResponse_, replayedResponse_) ==
    <<"statusMatch", "errorCheck">>
        \o (IF Truthy(replayedResponse_.error) THEN <<>>
            ELSE <<"normalizeOriginal", "normalizeReplayed", "testSame">>
                     \o (IF /\ statusMatch(originalResponse_, replayedResponse_)
                            /\ originalResponse_.body = replayedResponse_.body
                         THEN <<>>
                         ELSE stepsAfterSame(statusMatch(originalResponse_, replayedResponse_),
                                             normalizeBody(originalResponse_.body),
                                             normalizeBody(replayedResponse_.body))))
        \o <<"return">>

\* The statements compare executes, in order: the status comparison (line 274), the
\* test of the error indicator (277), the two normalizations (288, 289), the test
\* for SAME (298), then what follows it, and the return.
compareSteps(originalResponse_, replayedResponse_) ==
    <<"statusMatch", "errorCheck">>
        \o (IF Truthy(replayedResponse_.error) THEN <<>>
            ELSE IF ~BodyIsText(originalResponse_.body) \/ ~BodyIsText(replayedResponse_.body)
                 THEN <<"throw">>
            ELSE <<"normalizeOriginal", "normalizeReplayed", "testSame">>
                     \o (IF /\ statusMatch(originalResponse_, replayedResponse_)
                            /\ normalizeBody(originalResponse_.body) = normalizeBody(replayedResponse_.body)
                         THEN <<>>
                         ELSE stepsAfterSame(statusMatch(originalResponse_, replayedResponse_),
                                             normalizeBody(originalResponse_.body),
                                             normalizeBody(replayedResponse_.body))))
        \o <<"return">>

\* What compare logs as "Length difference": set when it reaches that line.
NoLog == [lengthDiff |-> 0, base |-> 0]

loggedLength(originalResponse_, replayedResponse_) ==
    IF /\ compare(originalResponse_, replayedResponse_) = "SIMILAR"
    THEN lengthDelta(normalizeBody(originalResponse_.body), normalizeBody(replayedResponse_.body))
    ELSE NoLog

\* The record detectBypass returns; threw tells that it raised instead.
BypassVerdict(bypass, severity, result_, message) ==
    [threw |-> FALSE, bypass |-> bypass, severity |-> severity, result |-> result_,
     message |-> message]

Thrown == [threw |-> TRUE, bypass |-> FALSE, severity |-> "NONE", result |-> "TypeError",
           message |-> ""]

NoVerdict == [threw |-> FALSE, bypass |-> FALSE, severity |-> "NONE", result |-> "none",
              message |-> ""]

low == Str(<<"l", "o", "w">>)

medium == Str(<<"m", "e", "d", "i", "u", "m">>)

high == Str(<<"h", "i", "g", "h">>)

\* String.prototype.toLowerCase on ASCII letters.
ToLowerCase(s) ==
    [i \in 1..Len(s) |->
        IF \E j \in 34..59 : AsciiLow[j] = s[i]
        THEN AsciiHigh[(CHOOSE j \in 34..59 : AsciiLow[j] = s[i]) - 33]
        ELSE s[i]]

\* Fault variant of classify: a low-privilege session is flagged on SAME only.
classifyLowSameOnly(result_, sessionPrivilege_) ==
    IF result_ = "ERROR" THEN BypassVerdict(FALSE, "NONE", result_, "Request failed")
    ELSE IF StrictEquals(sessionPrivilege_, low) /\ result_ = "SAME"
         THEN BypassVerdict(TRUE, "HIGH", result_,
                            "Low-privilege session received SAME response as high-privilege session")
    ELSE IF StrictEquals(sessionPrivilege_, medium) /\ result_ = "SAME"
         THEN BypassVerdict(TRUE, "MEDIUM", result_,
                            "Medium-privilege session received SAME response as high-privilege session")
    ELSE BypassVerdict(FALSE, "NONE", result_, "Authorization working as expected")

\* Fault variant of classify: a medium-privilege session is flagged on SIMILAR too.
classifyMediumSimilar(result_, sessionPrivilege_) ==
    IF result_ = "ERROR" THEN BypassVerdict(FALSE, "NONE", result_, "Request failed")
    ELSE IF StrictEquals(sessionPrivilege_, low) /\ result_ \in {"SAME", "SIMILAR"}
         THEN BypassVerdict(TRUE, IF result_ = "SAME" THEN "HIGH" ELSE "MEDIUM", result_,
                            "Low-privilege session received " \o result_
                                \o " response as high-privilege session")
    ELSE IF StrictEquals(sessionPrivilege_, medium) /\ result_ \in {"SAME", "SIMILAR"}
         THEN BypassVerdict(TRUE, "MEDIUM", result_,
                            "Medium-privilege session received SAME response as high-privilege session")
    ELSE BypassVerdict(FALSE, "NONE", result_, "Authorization working as expected")

\* Fault variant of classify: the second test is `sessionPrivilege !== 'low'`, so
\* every session that is not low-privilege is flagged on SAME.
classifyNotLow(result_, sessionPrivilege_) ==
    IF result_ = "ERROR" THEN BypassVerdict(FALSE, "NONE", result_, "Request failed")
    ELSE IF StrictEquals(sessionPrivilege_, low) /\ result_ \in {"SAME", "SIMILAR"}
         THEN BypassVerdict(TRUE, IF result_ = "SAME" THEN "HIGH" ELSE "MEDIUM", result_,
                            "Low-privilege session received " \o result_
                                \o " response as high-privilege session")
    ELSE IF ~StrictEquals(sessionPrivilege_, low) /\ result_ = "SAME"
         THEN BypassVerdict(TRUE, "MEDIUM", result_,
                            "Medium-privilege session received SAME response as high-privilege session")
    ELSE BypassVerdict(FALSE, "NONE", result_, "Authorization working as expected")

\* Fault variant of classify: the privilege is compared after
\* sessionPrivilege.toLowerCase(), which raises on a privilege that is no string.
classifyIgnoreCase(result_, sessionPrivilege_) ==
    IF result_ = "ERROR" THEN BypassVerdict(FALSE, "NONE", result_, "Request failed")
    ELSE IF sessionPrivilege_.k # "string" THEN Thrown
    ELSE LET p == Str(ToLowerCase(sessionPrivilege_.s))
         IN IF p = low /\ result_ \in {"SAME", "SIMILAR"}
            THEN BypassVerdict(TRUE, IF result_ = "SAME" THEN "HIGH" ELSE "MEDIUM", result_,
                               "Low-privilege session received " \o result_
                                   \o " response as high-privilege session")
            ELSE IF p = medium /\ result_ = "SAME"
                 THEN BypassVerdict(TRUE, "MEDIUM", result_,
                                    "Medium-privilege session received SAME response as high-privilege session")
            ELSE BypassVerdict(FALSE, "NONE", result_, "Authorization working as expected")

\* Fault variant of classify: SIMILAR for a low-privilege session is reported with
\* severity LOW.
classifySimilarLow(result_, sessionPrivilege_) ==
    IF result_ = "ERROR"
    THEN BypassVerdict(FALSE, "NONE", result_, "Request failed")
    ELSE IF StrictEquals(sessionPrivilege_, low) /\ result_ \in {"SAME", "SIMILAR"}
         THEN BypassVerdict(TRUE, IF result_ = "SAME" THEN "HIGH" ELSE "LOW", result_,
                            "Low-privilege session received " \o result_
                                \o " response as high-privilege session")
    ELSE IF StrictEquals(sessionPrivilege_, medium) /\ result_ = "SAME"
         THEN BypassVerdict(TRUE, "MEDIUM", result_,
                            "Medium-privilege session received SAME response as high-privilege session")
    ELSE BypassVerdict(FALSE, "NONE", result_, "Authorization working as expected")

\* The body of detectBypass after the call of compare: the judgment of a verdict
\* for a privilege.
classify(result_, sessionPrivilege_) ==
    IF result_ = "ERROR"
    THEN BypassVerdict(FALSE, "NONE", result_, "Request failed")
    ELSE IF StrictEquals(sessionPrivilege_, low) /\ result_ \in {"SAME", "SIMILAR"}
         THEN BypassVerdict(TRUE, IF result_ = "SAME" THEN "HIGH" ELSE "MEDIUM", result_,
                            "Low-privilege session received " \o result_
                                \o " response as high-privilege session")
    ELSE IF StrictEquals(sessionPrivilege_, medium) /\ result_ = "SAME"
         THEN BypassVerdict(TRUE, "MEDIUM", result_,
                            "Medium-privilege session received SAME response as high-privilege session")
    ELSE BypassVerdict(FALSE, "NONE", result_, "Authorization working as expected")

\* detectBypass(originalResponse, replayedResponse, sessionPrivilege)
detectBypass(originalResponse_, replayedResponse_, sessionPrivilege_) ==
    LET result_ == compare(originalResponse_, replayedResponse_)
    IN IF result_ = "TypeError" THEN Thrown ELSE classify(result_, sessionPrivilege_)

(***************************************************************************)
(* The result log of the analyzer and its consumers: AuthAnalyzerUI         *)
(* (integration-snippet.js 24-240) and the badge of main.js.  The analyzer  *)
(* itself (record, clearResults, getCriticalCount, the event bus) is not    *)
(* among the sources; it is written here from its contract.                 *)
(***************************************************************************)
SessionResult(sessionName, comparison) == [sessionName |-> sessionName, comparison |-> comparison]

AuthCheckResult(url, sessionResults_) ==
    [originalRequest |-> [url |-> url], sessionResults |-> sessionResults_]

\* Fault variant of record: a result equal to one already in the log is dropped.
recordDeduplicated(results_, checkResult_) ==
    IF \E i \in 1..Len(results_) : results_[i] = checkResult_ THEN results_
    ELSE Append(results_, checkResult_)

\* record(checkResult): the result goes to the end of the log.
record(results_, checkResult_) == Append(results_, checkResult_)

\* Fault variant of emit: the result is recorded without an event.
emitNothing(checkResult_) == <<>>

\* events.emit('AUTH_ANALYZER_RESULT', checkResult) within record: the payloads
\* handed to the subscribers before record returns.
emit(checkResult_) == <<checkResult_>>

\* Fault variant of authAnalyzer.clearResults: the oldest result is evicted.
clearResultsOldest(results_) == IF Len(results_) = 0 THEN <<>> ELSE Tail(results_)

\* authAnalyzer.clearResults(): the log after the call.
authAnalyzerClearResults(results_) == <<>>

IsHigh(sessionResult) == sessionResult.comparison.severity = "HIGH"

\* Fault variant of getCriticalCount: an AuthCheckResult counts once, however many
\* of its session results are HIGH.
RECURSIVE getCriticalCountPerResult(_)
getCriticalCountPerResult(results_) ==
    IF Len(results_) = 0 THEN 0
    ELSE (IF Len(SelectSeq(Head(results_).sessionResults, IsHigh)) > 0 THEN 1 ELSE 0)
             + getCriticalCountPerResult(Tail(results_))

\* authAnalyzerPanel.getCriticalCount(): the session results of severity HIGH in
\* the log.
RECURSIVE getCriticalCount(_)
getCriticalCount(results_) ==
    IF Len(results_) = 0 THEN 0
    ELSE Len(SelectSeq(Head(results_).sessionResults, IsHigh)) + getCriticalCount(Tail(results_))

DisplayLimit == 20

\* Array.prototype.slice(-n)
SliceLast(seq, n) == SubSeq(seq, IF Len(seq) > n THEN Len(seq) - n + 1 ELSE 1, Len(seq))

\* Array.prototype.reverse()
Reverse(seq) == [i \in 1..Len(seq) |-> seq[Len(seq) + 1 - i]]

\* sr => sr.comparison?.bypass
IsBypass(sessionResult) == sessionResult.comparison.bypass

\* One card of the results panel: the URL, the count of bypasses, and per session
\* its name and verdict.
ResultCard(result_) ==
    [url |-> result_.originalRequest.url,
     bypasses |-> Len(SelectSeq(result_.sessionResults, IsBypass)),
     sessions |-> [i \in 1..Len(result_.sessionResults) |->
                     <<result_.sessionResults[i].sessionName,
                       result_.sessionResults[i].comparison.result>>]]

\* renderResults(): the count of the log and the cards of its last results, newest
\* first.
renderResults(results_) ==
    [count |-> Len(results_),
     cards |-> IF Len(results_) = 0 THEN <<>>
               ELSE LET shown == Reverse(SliceLast(results_, DisplayLimit))
                    IN [i \in 1..Len(shown) |-> ResultCard(shown[i])]]

\* The warning addResult prints for a result: the URL, and per bypass the session
\* and its severity.
BypassWarning(result_) ==
    LET bypasses == SelectSeq(result_.sessionResults, IsBypass)
    IN [url |-> result_.originalRequest.url,
        lines |-> [i \in 1..Len(bypasses) |->
                     <<bypasses[i].sessionName, bypasses[i].comparison.severity>>]]

\* addResult(result): the console after it (the panel is rendered by renderResults).
addResult(warnings_, result_) ==
    IF Len(SelectSeq(result_.sessionResults, IsBypass)) > 0
    THEN Append(warnings_, BypassWarning(result_))
    ELSE warnings_

\* The AUTH_ANALYZER_RESULT handler of main.js: the badge after it.
updateBadge(badge_, results_) ==
    LET criticalCount == getCriticalCount(results_)
    IN IF criticalCount > 0
       THEN [textContent |-> criticalCount, display |-> "inline-block"]
       ELSE [badge_ EXCEPT !.display = "none"]

(***************************************************************************)
(* The Test Auth button of main.js (180-224) and processRequest, which it   *)
(* awaits.  processRequest is not among the sources; it is written here     *)
(* from its contract: one replay per active session, issued together, and   *)
(* one session result per session.                                         *)
(***************************************************************************)
NoCheckResult == AuthCheckResult("", <<>>)

\* The place of a session result whose replay has not completed.
Hole == SessionResult(0, NoVerdict)

\* Fault variant of placeResult: the session result goes to the first free place,
\* that is, results are collected in completion order.
placeResultOnCompletion(sessionResults_, index, sessionResult) ==
    LET free == CHOOSE i \in 1..Len(sessionResults_) :
                    /\ sessionResults_[i] = Hole
                    /\ \A j \in 1..(i - 1) : sessionResults_[j] # Hole
    IN [sessionResults_ EXCEPT ![free] = sessionResult]

\* The session result of the session tested index-th takes the index-th place.
placeResult(sessionResults_, index, sessionResult) ==
    [sessionResults_ EXCEPT ![index] = sessionResult]

\* document.querySelector('.request-item.selected') when no item is selected.
NoItem == -1

ButtonIdle == [disabled |-> FALSE, textContent |-> "Test Auth"]

ButtonTesting == [disabled |-> TRUE, textContent |-> "Testing..."]

ButtonDone == [disabled |-> TRUE, textContent |-> "Done"]

(***************************************************************************)
(* Sessions: AuthAnalyzerUI.saveSession (integration-snippet.js 111-134)    *)
(* and the substitution of a session's headers in a replay.  The Session    *)
(* class and the replay are not among the sources; they are written here    *)
(* from their contract.  Headers are sets of <<name, value>> pairs.         *)
(***************************************************************************)
\* new Session(name, color): no header to set, none to remove.
Session(name, color) ==
    [name |-> name, color |-> color, privilege |-> "low", headers |-> {}, headersToRemove |-> {}]

\* The session saveSession builds from the fields of the editor, name and cookie
\* already trimmed.
sessionFromForm(name, privilege, color, cookie) ==
    LET session == [Session(name, color) EXCEPT !.privilege = privilege]
    IN IF Len(cookie) > 0
       THEN [session EXCEPT !.headers = {<<"Cookie", cookie>>}]
       ELSE [session EXCEPT !.headersToRemove = {"Cookie"}]

\* Fault variant of substituteHeaders: a header named for removal is stripped even
\* when the session also sets it.
substituteHeadersRemoveWins(requestHeaders, session) ==
    {h \in requestHeaders \cup session.headers :
        /\ h[1] \notin session.headersToRemove
        /\ (h \in requestHeaders /\ h \notin session.headers) =>
              \A g \in session.headers : g[1] # h[1]}

\* The headers a replay sends for a session: a header the session sets goes out
\* with the session's value; any other header is dropped when the session names
\* it for removal and goes out as captured otherwise.
substituteHeaders(requestHeaders, session) ==
    session.headers
        \cup {h \in requestHeaders :
                 /\ \A g \in session.headers : g[1] # h[1]
                 /\ h[1] \notin session.headersToRemove}

NoReplay == [session |-> Session(<<>>, ""), requestHeaders |-> {}, sent |-> {}]

(***************************************************************************)
(* Inputs                                                                  *)
(***************************************************************************)
\* The longest run of whitespace in a body of the model.
MaxRun == 2

Spaces(n) == [i \in 1..n |-> " "]

\* {"a":1,<ws>"b":2}
ObjAB(ws) ==
    <<"{", "\"", "a", "\"", ":", "1", ",">> \o ws \o <<"\"", "b", "\"", ":", "2", "}">>

\* {"b":2,"a":1}
ObjBA == <<"{", "\"", "b", "\"", ":", "2", ",", "\"", "a", "\"", ":", "1", "}">>

\* {"a":2}
ObjA2 == <<"{", "\"", "a", "\"", ":", "2", "}">>

\* {"a":1   (not JSON)
Malformed == <<"{", "\"", "a", "\"", ":", "1">>

\* <p><ws><b>
Tags(ws) == <<"<", "p", ">">> \o ws \o <<"<", "b", ">">>

\* a<ws>b
Words(ws) == <<"a">> \o ws \o <<"b">>

\* The bodies a response of the model carries: absent, null, empty, blank, JSON in
\* several spellings, broken JSON, markup and plain text.
Bodies ==
    {Undefined, Null, Str(<<>>), Str(ObjBA), Str(ObjA2), Str(Malformed), Str(<<"0">>)}
        \cup {Str(Spaces(n)) : n \in 1..MaxRun}
        \cup {Str(ObjAB(Spaces(n))) : n \in 0..MaxRun}
        \cup {Str(Tags(Spaces(n))) : n \in 0..MaxRun}
        \cup {Str(Words(Spaces(n))) : n \in 1..MaxRun}
        \cup {Str(<<"a", "\n", "\t", "b">>)}

Statuses == {Num(200), Num(403), Undefined}

\* A captured response and a replayed one: the replay sets error on failure.
OriginalResponses ==
    {Response(s, b, e) : s \in Statuses, b \in Bodies, e \in {Undefined, Bool(TRUE)}}

ReplayedResponses ==
    {Response(s, b, e) : s \in Statuses, b \in Bodies, e \in {Undefined, Bool(FALSE), Bool(TRUE)}}

\* What a session may carry as its privilege: the three levels, and values outside them.
Privileges ==
    {low, medium, high, Str(<<"L", "O", "W">>), Str(<<"a", "d", "m", "i", "n">>), Str(<<>>),
     Undefined}

(***************************************************************************)
(* The comparator as a state machine: a call, then the return to the caller *)
(***************************************************************************)
Init ==
    /\ originalResponse = Response(Undefined, Undefined, Undefined)
    /\ replayedResponse = Response(Undefined, Undefined, Undefined)
    /\ sessionPrivilege = Undefined
    /\ result = "none"
    /\ verdict = NoVerdict
    /\ lengthLog = NoLog
    /\ op = "none"
    /\ steps = <<>>
    /\ documents = <<>>
    /\ bodies = <<>>
    /\ relation = "none"
    /\ normalized = <<>>
    /\ renormalized = <<>>
    /\ results = <<>>
    /\ history = <<>>
    /\ clearedAt = 0
    /\ panel = renderResults(<<>>)
    /\ warnings = <<>>
    /\ badge = [textContent |-> 0, display |-> "none"]
    /\ logOp = "none"
    /\ tested = <<>>
    /\ inFlight = {}
    /\ completion = <<>>
    /\ sessionResults = <<>>
    /\ checkResult = NoCheckResult
    /\ replayOp = "none"
    /\ testAuthBtn = ButtonIdle
    /\ alert = ""
    /\ pending = 0
    /\ clickedWith = [enabled |-> FALSE, swapCookie |-> FALSE, selectedItem |-> NoItem, listed |-> 0]
    /\ savedSessions = <<>>
    /\ sessionModal = "none"
    /\ sessionAlert = ""
    /\ replayed = NoReplay
    /\ blockRequests = FALSE
    /\ requests = <<>>
    /\ blockedQueue = <<>>
    /\ starredPages = {"a.test"}
    /\ starredDomains = {"b.test"}
    /\ blockEvents = 0
    /\ arrivals = <<>>
    /\ processed = <<>>
    /\ startScanBtn = [disabled |-> FALSE]
    /\ scanPc = "idle"
    /\ scansRunning = 0
    /\ scansStarted = 0
    /\ totalFiles = 0
    /\ filesProcessed = 0
    /\ extractorProgress = [display |-> "none", text |-> ""]
    /\ hideTimers = 0
    /\ scanExit = "none"
    /\ rawRequestInput = ""
    /\ undoStack = <<>>
    /\ redoStack = <<>>
    /\ historyEmitted = FALSE
    /\ historyOp = "none"
    /\ lastShown = ""
    /\ prevOp = "none"
    /\ prevShown = ""

\* compare(o, r) as it acts on the comparator's state.
CompareCall(o, r) ==
    /\ originalResponse' = o
    /\ replayedResponse' = r
    /\ sessionPrivilege' = Undefined
    /\ result' = compare(o, r)
    /\ lengthLog' = loggedLength(o, r)
    /\ verdict' = NoVerdict
    /\ op' = "compare"
    /\ steps' = compareSteps(o, r)

\* The comparator back at rest.
ComparatorReturn ==
    /\ originalResponse' = Response(Undefined, Undefined, Undefined)
    /\ replayedResponse' = Response(Undefined, Undefined, Undefined)
    /\ sessionPrivilege' = Undefined
    /\ result' = "none"
    /\ verdict' = NoVerdict
    /\ lengthLog' = NoLog
    /\ op' = "none"
    /\ steps' = <<>>

\* A call of compare(o, r).
Compare(o, r) ==
    /\ CompareCall(o, r)
    /\ UNCHANGED otherVars

\* A call of detectBypass(o, r, p); result is its local constant of that name.
DetectBypass(o, r, p) ==
    /\ originalResponse' = o
    /\ replayedResponse' = r
    /\ sessionPrivilege' = p
    /\ result' = compare(o, r)
    /\ lengthLog' = loggedLength(o, r)
    /\ verdict' = detectBypass(o, r, p)
    /\ op' = "detectBypass"
    /\ steps' = compareSteps(o, r)
    /\ UNCHANGED otherVars

\* The caller takes the returned value; the comparator keeps nothing between calls.
Return ==
    /\ op # "none"
    /\ ComparatorReturn
    /\ UNCHANGED otherVars

\* Some caller calls compare, on any two responses.
CallCompare ==
    /\ op = "none"
    /\ \E o \in OriginalResponses, r \in ReplayedResponses : Compare(o, r)

\* Some caller calls detectBypass, on any two responses and any privilege.
CallDetectBypass ==
    /\ op = "none"
    /\ \E o \in OriginalResponses, r \in ReplayedResponses, p \in Privileges : DetectBypass(o, r, p)

Next ==
    \/ CallCompare
    \/ CallDetectBypass
    \/ Return

Spec == Init /\ [][Next]_vars

(***************************************************************************)
(* normalizeBody on related bodies: JSON documents that differ in key      *)
(* order and layout, texts that differ in whitespace                       *)
(***************************************************************************)
MaxKeys == 2

KeyNames == {<<"a">>, <<"b">>, <<"9">>, <<"1", "0">>}

\* The value a document of the model holds under each key.
ValueOf(key) ==
    CASE key = <<"a">> -> Num(1)
      [] key = <<"b">> -> Str(<<"x", " ", " ", "y">>)
      [] key = <<"9">> -> Null
      [] OTHER -> Bool(FALSE)

\* The sequences of n distinct keys out of names.
KeySeqs(names, n) == {ks \in [1..n -> names] : \A i, j \in 1..n : i # j => ks[i] # ks[j]}

\* The objects of up to n keys out of names, in every order of writing.
FlatObjects(names, n) ==
    UNION {{Object([i \in 1..m |-> <<ks[i], ValueOf(ks[i])>>]) : ks \in KeySeqs(names, m)} :
           m \in 0..n}

\* Objects within an object and within an array.
NestedObjects ==
    LET inner == FlatObjects({<<"a">>, <<"9">>}, 2)
    IN {Object(<<<<<<"o">>, f>>, <<<<"l">>, Array(<<g, Num(1)>>)>>>>) : f, g \in inner}

\* The JSON documents of the model; the properties of an object are in the order
\* they are written in.
Documents ==
    {Num(1), Str(<<"x">>), Null, Bool(TRUE), Array(<<Num(2), Num(1)>>)}
        \cup FlatObjects(KeyNames, MaxKeys)
        \cup NestedObjects

Bijections(n) == {pi \in [1..n -> 1..n] : \A i, j \in 1..n : i # j => pi[i] # pi[j]}

\* The documents obtained from v by permuting the keys of its objects at any depth;
\* the elements of an array keep their order.
RECURSIVE KeyPermutations(_)
KeyPermutations(v) ==
    IF v.k = "array"
    THEN LET n == Len(v.items)
             each == [i \in 1..n |-> KeyPermutations(v.items[i])]
             all == UNION {each[i] : i \in 1..n}
         IN {Array(w) : w \in {x \in [1..n -> all] : \A i \in 1..n : x[i] \in each[i]}}
    ELSE IF v.k = "object"
    THEN LET n == Len(v.props)
             each == [i \in 1..n |-> KeyPermutations(v.props[i][2])]
             all == UNION {each[i] : i \in 1..n}
         IN {Object([i \in 1..n |-> <<v.props[pi[i]][1], w[pi[i]]>>]) :
                pi \in Bijections(n),
                w \in {x \in [1..n -> all] : \A i \in 1..n : x[i] \in each[i]}}
    ELSE {v}

\* The JSON text of a document, with pad wherever JSON allows whitespace.
RECURSIVE serializePadded(_, _)
serializePadded(v, pad) ==
    IF v.k = "array"
    THEN <<"[">> \o pad
            \o Join([i \in 1..Len(v.items) |-> serializePadded(v.items[i], pad)], pad \o <<",">> \o pad)
            \o pad \o <<"]">>
    ELSE IF v.k = "object"
    THEN <<"{">> \o pad
            \o Join([i \in 1..Len(v.props) |->
                       <<"\"">> \o v.props[i][1] \o <<"\"">> \o pad \o <<":">> \o pad
                           \o serializePadded(v.props[i][2], pad)],
                    pad \o <<",">> \o pad)
            \o pad \o <<"}">>
    ELSE JSONstringify(v)

serialize(v, pad) == pad \o serializePadded(v, pad) \o pad

Pads == {Spaces(n) : n \in 0..(MaxRun - 1)} \cup {<<"\n", "\t">>}

\* Whitespace runs: spaces, a newline, a tab, a mix.
Runs == {Spaces(n) : n \in 1..MaxRun} \cup {<<"\n">>, <<"\t">>, <<" ", "\n">>}

\* A text with places for whitespace: RUN stands for a run of one character or
\* more, EDGE for whitespace at either end of the text and TAG for whitespace
\* directly between a '>' and the next '<', both of which may be absent.
SlotKinds == {"RUN", "EDGE", "TAG"}

FillsOf(kind) == IF kind = "RUN" THEN Runs ELSE Runs \cup {<<>>}

Templates ==
    {<<"EDGE", "a", "RUN", "b">>,
     <<"a", "RUN", "b", "EDGE">>,
     <<"EDGE">>,
     <<"<", "p", ">", "TAG", "<", "b", ">", "RUN", "x">>,
     <<"<", "p", ">", "RUN", "a", "<", "/", "p", ">", "TAG", "<", "p", ">">>,
     <<"{", "RUN", "\"", "a", "\"", "EDGE">>,
     <<"\"", "a", "RUN", "b", "\"">>}

IsSlot(part) == part \in SlotKinds

\* The ways of filling the places of a template, one whitespace text per place.
Fills(template) ==
    LET kinds == SelectSeq(template, IsSlot)
    IN {f \in [1..Len(kinds) -> Runs \cup {<<>>}] : \A i \in 1..Len(kinds) : f[i] \in FillsOf(kinds[i])}

RECURSIVE Fill(_, _)
Fill(template, fills) ==
    IF Len(template) = 0 THEN <<>>
    ELSE IF IsSlot(Head(template)) THEN Head(fills) \o Fill(Tail(template), Tail(fills))
    ELSE <<Head(template)>> \o Fill(Tail(template), fills)

\* compare on two responses of one status whose bodies spell the documents v and w;
\* normalized holds what normalizeBody makes of either body.
Reordered(v, w, pad1, pad2, status, error) ==
    LET body1 == Str(serialize(v, pad1))
        body2 == Str(serialize(w, pad2))
    IN /\ CompareCall(Response(status, body1, Undefined), Response(status, body2, error))
       /\ documents' = <<v, w>>
       /\ bodies' = <<body1, body2>>
       /\ relation' = "keyOrder"
       /\ normalized' = <<normalizeBody(body1), normalizeBody(body2)>>
       /\ renormalized' = <<>>
       /\ UNCHANGED <<logVars, replayVars, sessionVars, captureVars, scanVars, historyVars>>

\* normalizeBody on the two texts that fills1 and fills2 make of a template.
Respaced(template, fills1, fills2) ==
    LET body1 == Str(Fill(template, fills1))
        body2 == Str(Fill(template, fills2))
    IN /\ documents' = <<>>
       /\ bodies' = <<body1, body2>>
       /\ relation' = "whitespace"
       /\ normalized' = <<normalizeBody(body1), normalizeBody(body2)>>
       /\ renormalized' = <<>>
       /\ UNCHANGED <<comparatorVars, logVars, replayVars, sessionVars, captureVars, scanVars, historyVars>>

CompareReordered ==
    /\ relation = "none"
    /\ \E v \in Documents, pad1 \in Pads, pad2 \in Pads,
          status \in {Num(200), Undefined}, error \in {Undefined, Bool(TRUE)} :
          \E w \in KeyPermutations(v) : Reordered(v, w, pad1, pad2, status, error)

NormalizeRespaced ==
    /\ relation = "none"
    /\ \E template \in Templates :
          \E fills1 \in Fills(template), fills2 \in Fills(template) :
             Respaced(template, fills1, fills2)

\* normalizeBody on its own output.
Renormalize ==
    /\ relation # "none"
    /\ renormalized = <<>>
    /\ renormalized' = <<normalizeBody(Str(normalized[1])), normalizeBody(Str(normalized[2]))>>
    /\ UNCHANGED <<comparatorVars, documents, bodies, relation, normalized, logVars, replayVars, sessionVars, captureVars, scanVars, historyVars>>

NormalizeReturn ==
    /\ relation # "none"
    /\ ComparatorReturn
    /\ documents' = <<>>
    /\ bodies' = <<>>
    /\ relation' = "none"
    /\ normalized' = <<>>
    /\ renormalized' = <<>>
    /\ UNCHANGED <<logVars, replayVars, sessionVars, captureVars, scanVars, historyVars>>

NextNormalize ==
    \/ CompareReordered
    \/ NormalizeRespaced
    \/ Renormalize
    \/ NormalizeReturn

SpecNormalize == Init /\ [][NextNormalize]_vars

(***************************************************************************)
(* The result log as a state machine: results are recorded and the log is  *)
(* cleared                                                                 *)
(***************************************************************************)
MaxLog == 3

MaxSessions == 2

\* What detectBypass returns for a low-privilege session: HIGH, MEDIUM and NONE.
SessionVerdicts == {classify(r, low) : r \in {"SAME", "SIMILAR", "DIFFERENT"}}

SeverityRank(severity) == CASE severity = "HIGH" -> 2 [] severity = "MEDIUM" -> 1 [] OTHER -> 0

\* The results of testing one request against up to MaxSessions sessions.  Where a
\* session result stands within its result plays no part in the log, so the
\* session results are listed by falling severity.
CheckResults ==
    UNION {{AuthCheckResult("/api/users", [i \in 1..n |-> SessionResult(i, c[i])]) :
               c \in {x \in [1..n -> SessionVerdicts] :
                         \A i \in 1..n, j \in 1..n :
                            i < j => SeverityRank(x[i].severity) >= SeverityRank(x[j].severity)}} :
           n \in 0..MaxSessions}

\* record(checkResult) and, within it, the event and its two subscribers: addResult
\* of the panel and the badge handler.
RecordResult(checkResult_) ==
    LET delivered == emit(checkResult_)
    IN /\ results' = record(results, checkResult_)
       /\ history' = Append(history, checkResult_)
       /\ panel' = IF Len(delivered) = 0 THEN panel ELSE renderResults(results')
       /\ warnings' = IF Len(delivered) = 0 THEN warnings ELSE addResult(warnings, delivered[1])
       /\ badge' = IF Len(delivered) = 0 THEN badge ELSE updateBadge(badge, results')
       /\ logOp' = "record"
       /\ UNCHANGED <<clearedAt, comparatorVars, normalizeVars, replayVars, sessionVars, captureVars, scanVars, historyVars>>

Record ==
    /\ Len(history) < MaxLog
    /\ \E checkResult_ \in CheckResults : RecordResult(checkResult_)

\* The click on the clear button: AuthAnalyzerUI.clearResults.
clearResults ==
    /\ results' = authAnalyzerClearResults(results)
    /\ panel' = renderResults(results')
    /\ clearedAt' = Len(history)
    /\ logOp' = "clear"
    /\ UNCHANGED <<history, warnings, badge, comparatorVars, normalizeVars, replayVars, sessionVars, captureVars, scanVars, historyVars>>

NextLog ==
    \/ Record
    \/ clearResults

SpecLog == Init /\ [][NextLog]_vars

(***************************************************************************)
(* The test of a request as a state machine: the click, the replays         *)
(* completing in any order, the return of processRequest, the button        *)
(***************************************************************************)
MaxConcurrent == 3

\* The sessions of the analyzer, in the order of its list.
SessionList == [i \in 1..MaxConcurrent |-> i]

IndexOf(seq, x) == CHOOSE i \in 1..Len(seq) : seq[i] = x

\* Fault variant of ClickTestAuth: the button is left enabled during the test.
ClickTestAuthStaysEnabled(enabled, swapCookie, selectedItem, listed, active) ==
    /\ ~testAuthBtn.disabled
    /\ IF ~enabled \/ ~swapCookie \/ selectedItem = NoItem \/ ~(selectedItem < listed)
       THEN /\ alert' = "not started"
            /\ UNCHANGED <<tested, inFlight, completion, sessionResults, checkResult, replayOp,
                           testAuthBtn, pending, clickedWith>>
       ELSE LET order == SelectSeq(SessionList, LAMBDA s : s \in active)
            IN /\ tested' = order
               /\ inFlight' = active
               /\ completion' = <<>>
               /\ sessionResults' = [i \in 1..Len(order) |-> Hole]
               /\ checkResult' = NoCheckResult
               /\ replayOp' = "testing"
               /\ testAuthBtn' = [ButtonTesting EXCEPT !.disabled = FALSE]
               /\ pending' = pending + 1
               /\ clickedWith' = [enabled |-> enabled, swapCookie |-> swapCookie,
                                  selectedItem |-> selectedItem, listed |-> listed]
               /\ alert' = ""
    /\ UNCHANGED <<comparatorVars, normalizeVars, logVars, sessionVars, captureVars, scanVars, historyVars>>

\* The click on Test Auth, which a disabled button does not take: an alert when
\* the analyzer is off or has no swap cookie, when no item is selected, or when
\* the selected item's index has no request in state.requests (listed is their
\* number); otherwise the button shows the test running and processRequest is
\* called, which issues one replay for each active session.
ClickTestAuth(enabled, swapCookie, selectedItem, listed, active) ==
    /\ ~testAuthBtn.disabled
    /\ IF ~enabled \/ ~swapCookie
       THEN /\ alert' = "Auth Analyzer not configured!"
            /\ UNCHANGED <<tested, inFlight, completion, sessionResults, checkResult, replayOp,
                           testAuthBtn, pending, clickedWith>>
       ELSE IF selectedItem = NoItem
       THEN /\ alert' = "No request selected"
            /\ UNCHANGED <<tested, inFlight, completion, sessionResults, checkResult, replayOp,
                           testAuthBtn, pending, clickedWith>>
       ELSE IF ~(selectedItem < listed)
       THEN /\ alert' = "Could not find request data"
            /\ UNCHANGED <<tested, inFlight, completion, sessionResults, checkResult, replayOp,
                           testAuthBtn, pending, clickedWith>>
       ELSE LET order == SelectSeq(SessionList, LAMBDA s : s \in active)
            IN /\ tested' = order
               /\ inFlight' = active
               /\ completion' = <<>>
               /\ sessionResults' = [i \in 1..Len(order) |-> Hole]
               /\ checkResult' = NoCheckResult
               /\ replayOp' = "testing"
               /\ testAuthBtn' = ButtonTesting
               /\ pending' = pending + 1
               /\ clickedWith' = [enabled |-> enabled, swapCookie |-> swapCookie,
                                  selectedItem |-> selectedItem, listed |-> listed]
               /\ alert' = ""
    /\ UNCHANGED <<comparatorVars, normalizeVars, logVars, sessionVars, captureVars, scanVars, historyVars>>

\* The active sessions are looked at only by a click that starts a test.
Click ==
    \E enabled \in BOOLEAN, swapCookie \in BOOLEAN, selectedItem \in {NoItem, 1}, listed \in 1..2 :
        \E active \in IF enabled /\ swapCookie /\ selectedItem # NoItem /\ selectedItem < listed
                       THEN SUBSET (1..MaxConcurrent) ELSE {{}} :
            ClickTestAuth(enabled, swapCookie, selectedItem, listed, active)

\* The replay of one session completes and its verdict is collected.
ReplayCompletes(session, comparison) ==
    /\ session \in inFlight
    /\ inFlight' = inFlight \ {session}
    /\ completion' = Append(completion, <<session, comparison>>)
    /\ sessionResults' = placeResult(sessionResults, IndexOf(tested, session),
                                     SessionResult(session, comparison))
    /\ UNCHANGED <<tested, checkResult, replayOp, testAuthBtn, alert, pending, clickedWith,
                   comparatorVars, normalizeVars, logVars, sessionVars, captureVars, scanVars, historyVars>>

Completes ==
    /\ replayOp = "testing"
    /\ \E session \in 1..MaxConcurrent, comparison \in SessionVerdicts :
          ReplayCompletes(session, comparison)

\* All replays are in: processRequest resolves and the handler goes on.
ProcessRequestResolves ==
    /\ replayOp = "testing"
    /\ inFlight = {}
    /\ checkResult' = AuthCheckResult("/api/users", sessionResults)
    /\ replayOp' = "done"
    /\ testAuthBtn' = ButtonDone
    /\ pending' = pending - 1
    /\ UNCHANGED <<tested, inFlight, completion, sessionResults, alert, clickedWith,
                   comparatorVars, normalizeVars, logVars, sessionVars, captureVars, scanVars, historyVars>>

\* processRequest rejects: the catch branch of the handler.
ProcessRequestRejects ==
    /\ replayOp = "testing"
    /\ replayOp' = "failed"
    /\ inFlight' = {}
    /\ alert' = "Test failed"
    /\ testAuthBtn' = ButtonIdle
    /\ pending' = pending - 1
    /\ UNCHANGED <<tested, completion, sessionResults, checkResult, clickedWith,
                   comparatorVars, normalizeVars, logVars, sessionVars, captureVars, scanVars, historyVars>>

\* The timer set after a finished test puts the button back.
ButtonTimeout ==
    /\ testAuthBtn = ButtonDone
    /\ testAuthBtn' = ButtonIdle
    /\ UNCHANGED <<tested, inFlight, completion, sessionResults, checkResult, replayOp, alert,
                   pending, clickedWith, comparatorVars, normalizeVars, logVars, sessionVars, captureVars, scanVars, historyVars>>

NextReplay ==
    \/ Click
    \/ Completes
    \/ ProcessRequestResolves
    \/ ProcessRequestRejects
    \/ ButtonTimeout

SpecReplay == Init /\ [][NextReplay]_vars

\* The same, with the event loop running the timer set at line 209 once it is
\* due.
SpecReplayFair == SpecReplay /\ WF_vars(ButtonTimeout)

(***************************************************************************)
(* Sessions as a state machine: the editor saves sessions, replays are      *)
(* prepared for a session                                                   *)
(***************************************************************************)
MaxSaved == 2

HeaderNames == {"Cookie", "Authorization"}

\* Header sets with one value at most per name.
HeaderSets ==
    {hs \in SUBSET (HeaderNames \X {<<"r">>, <<"w">>}) :
        \A g \in hs, h \in hs : g[1] = h[1] => g = h}

\* Sessions however configured: any headers to set, any to remove, the same name
\* in both included.
SessionConfigs ==
    {[Session(<<"u">>, "#4CAF50") EXCEPT !.headers = hs, !.headersToRemove = rm] :
        hs \in {h \in HeaderSets : \A g \in h : g[2] = <<"w">>}, rm \in SUBSET HeaderNames}

\* Add Session: the editor opens with its fields reset.
showAddSessionModal ==
    /\ sessionModal' = "flex"
    /\ UNCHANGED <<savedSessions, sessionAlert, replayed, comparatorVars, normalizeVars, logVars,
                   replayVars, captureVars, scanVars, historyVars>>

\* Save in the editor, with what the fields hold.
saveSession(nameField, privilege, cookieField) ==
    LET name == Trim(nameField)
        cookie == Trim(cookieField)
    IN IF Len(name) = 0
       THEN /\ sessionAlert' = "Please enter a session name"
            /\ UNCHANGED <<savedSessions, sessionModal>>
       ELSE /\ savedSessions' = Append(savedSessions, sessionFromForm(name, privilege, "#4CAF50", cookie))
            /\ sessionModal' = "none"
            /\ UNCHANGED sessionAlert

Save ==
    /\ sessionModal = "flex"
    /\ Len(savedSessions) < MaxSaved
    /\ \E nameField \in {<<>>, <<" ">>, <<" ", "u">>},
          privilege \in {"low", "medium", "high"},
          cookieField \in {<<>>, <<" ", " ">>, <<"s", "=", "1", " ">>} :
          saveSession(nameField, privilege, cookieField)
    /\ UNCHANGED <<replayed, comparatorVars, normalizeVars, logVars, replayVars, captureVars, scanVars, historyVars>>

\* A replay is prepared: a captured request's headers under a session, saved or
\* configured otherwise.
PrepareReplay ==
    /\ \E session \in SessionConfigs \cup {savedSessions[i] : i \in 1..Len(savedSessions)},
          requestHeaders \in {h \in HeaderSets : \A g \in h : g[2] = <<"r">>} :
          replayed' = [session |-> session, requestHeaders |-> requestHeaders,
                       sent |-> substituteHeaders(requestHeaders, session)]
    /\ UNCHANGED <<savedSessions, sessionModal, sessionAlert, comparatorVars, normalizeVars,
                   logVars, replayVars, captureVars, scanVars, historyVars>>

NextSession ==
    \/ showAddSessionModal
    \/ Save
    \/ PrepareReplay

SpecSession == Init /\ [][NextSession]_vars

(***************************************************************************)
(* Capture as a state machine: the network listener of main.js 142-157      *)
(***************************************************************************)
MaxCaptured == 3

\* Captured requests: the page that issued the request and the host asked.
CapturedRequests ==
    {[id |-> id, pageHostname |-> page, requestHostname |-> host, starred |-> FALSE] :
        id \in 1..MaxCaptured, page \in {"a.test", "b.test"}, host \in {"a.test", "b.test", "c.test"}}

\* processCapturedRequest up to the call of actions.request.add: the request,
\* starred when its page is starred and it is first-party, or its host is starred.
autoStar(request) ==
    LET firstParty ==
            IF request.pageHostname \in starredPages /\ request.pageHostname = request.requestHostname
            THEN [request EXCEPT !.starred = TRUE] ELSE request
    IN IF request.requestHostname \in starredDomains
       THEN [firstParty EXCEPT !.starred = TRUE] ELSE firstParty

\* processCapturedRequest(request).  actions.request.add is not among the
\* sources: it puts the request at the end of state.requests.
processCapturedRequest(request) ==
    /\ requests' = Append(requests, autoStar(request))
    /\ processed' = Append(processed, request.id)

\* Fault variant of onCaptured: the blocked queue is not looked at.
onCapturedIgnoresQueue(request) ==
    IF blockRequests
    THEN IF ~(Len(requests) > 0)
         THEN /\ processCapturedRequest(request)
              /\ UNCHANGED <<blockedQueue, blockEvents>>
         ELSE /\ blockedQueue' = Append(blockedQueue, request)
              /\ blockEvents' = blockEvents + 1
              /\ UNCHANGED <<requests, processed>>
    ELSE /\ processCapturedRequest(request)
         /\ UNCHANGED <<blockedQueue, blockEvents>>

\* The callback given to setupNetworkListener.
onCaptured(request) ==
    IF blockRequests
    THEN LET hasActiveList == Len(requests) > 0
             hasQueued == Len(blockedQueue) > 0
         IN IF ~hasActiveList /\ ~hasQueued
            THEN /\ processCapturedRequest(request)
                 /\ UNCHANGED <<blockedQueue, blockEvents>>
            ELSE /\ blockedQueue' = Append(blockedQueue, request)
                 /\ blockEvents' = blockEvents + 1
                 /\ UNCHANGED <<requests, processed>>
    ELSE /\ processCapturedRequest(request)
         /\ UNCHANGED <<blockedQueue, blockEvents>>

\* The browser reports a request.
Capture ==
    /\ Len(arrivals) < MaxCaptured
    /\ \E request \in {q \in CapturedRequests : q.id = Len(arrivals) + 1} :
          /\ arrivals' = Append(arrivals, request)
          /\ onCaptured(request)
    /\ UNCHANGED <<blockRequests, starredPages, starredDomains, comparatorVars, normalizeVars,
                   logVars, replayVars, sessionVars, scanVars, historyVars>>

\* The user switches blocking on or off (the switch is not among the sources).
ToggleBlock ==
    /\ blockRequests' = ~blockRequests
    /\ UNCHANGED <<requests, blockedQueue, starredPages, starredDomains, blockEvents, arrivals,
                   processed, comparatorVars, normalizeVars, logVars, replayVars, sessionVars, scanVars, historyVars>>

\* The user empties the request list (the command is not among the sources).
ClearList ==
    /\ Len(requests) > 0
    /\ requests' = <<>>
    /\ UNCHANGED <<blockRequests, blockedQueue, starredPages, starredDomains, blockEvents,
                   arrivals, processed, comparatorVars, normalizeVars, logVars, replayVars,
                   sessionVars, scanVars, historyVars>>

NextCapture ==
    \/ Capture
    \/ ToggleBlock
    \/ ClearList

SpecCapture == Init /\ [][NextCapture]_vars

(***************************************************************************)
(* The extractor's scan as a state machine: the click handler of the        *)
(* start-scan button (part_000 272-512), one action for each stretch        *)
(* between two awaits                                                       *)
(***************************************************************************)
MaxScans == 2

MaxFiles == 2

scanRest ==
    <<comparatorVars, normalizeVars, logVars, replayVars, sessionVars, captureVars, historyVars>>

\* Fault variant of scanReturns: the early returns leave without the finally
\* block.
scanReturnsEarly(exit, text) ==
    /\ scanPc' = "idle"
    /\ scansRunning' = scansRunning - 1
    /\ scanExit' = exit
    /\ extractorProgress' =
          IF exit = "completed" THEN extractorProgress
          ELSE IF exit = "exception" THEN [display |-> "block", text |-> text]
          ELSE [extractorProgress EXCEPT !.text = text]
    /\ startScanBtn' = IF exit \in {"noRequests", "noJs"} THEN startScanBtn
                       ELSE [startScanBtn EXCEPT !.disabled = FALSE]
    /\ hideTimers' = hideTimers + (IF exit \in {"noRequests", "noJs"} THEN 2 ELSE 1)
    /\ UNCHANGED <<scansStarted, totalFiles, filesProcessed, scanRest>>

\* The handler leaves the try block: by one of the two early returns (each with
\* its message and a timer to hide the progress box), through the catch block,
\* or at the end; the finally block enables the button and sets a timer to hide
\* the progress box.
scanReturns(exit, text) ==
    /\ scanPc' = "idle"
    /\ scansRunning' = scansRunning - 1
    /\ scanExit' = exit
    /\ extractorProgress' =
          IF exit = "completed" THEN extractorProgress
          ELSE IF exit = "exception" THEN [display |-> "block", text |-> text]
          ELSE [extractorProgress EXCEPT !.text = text]
    /\ startScanBtn' = [startScanBtn EXCEPT !.disabled = FALSE]
    /\ hideTimers' = hideTimers + (IF exit \in {"noRequests", "noJs"} THEN 2 ELSE 1)
    /\ UNCHANGED <<scansStarted, totalFiles, filesProcessed, scanRest>>

\* The click, which a disabled button does not take: up to the await of the
\* imports.
ClickStartScan ==
    /\ ~startScanBtn.disabled
    /\ scansStarted < MaxScans
    /\ extractorProgress' = [display |-> "block", text |-> "Scanning JS files..."]
    /\ startScanBtn' = [startScanBtn EXCEPT !.disabled = TRUE]
    /\ scanPc' = "importing"
    /\ scansRunning' = scansRunning + 1
    /\ scansStarted' = scansStarted + 1
    /\ totalFiles' = 0
    /\ filesProcessed' = 0
    /\ UNCHANGED <<hideTimers, scanExit, scanRest>>

\* The imports resolve: with the requests captured by then and the JavaScript
\* files among them, the handler returns early or starts the scan for secrets.
ImportsResolve ==
    /\ scanPc = "importing"
    /\ \E captured \in 0..MaxFiles, js \in 0..MaxFiles :
          /\ js <= captured
          /\ IF captured = 0 THEN scanReturns("noRequests", "No requests captured yet.")
             ELSE IF js = 0 THEN scanReturns("noJs", "No JavaScript files found in captured requests.")
             ELSE /\ scanPc' = "secrets"
                  /\ totalFiles' = js
                  /\ UNCHANGED <<startScanBtn, scansRunning, scansStarted, filesProcessed,
                                 extractorProgress, hideTimers, scanExit, scanRest>>

\* scanForSecrets resolves; the handler waits for the progress animation.
SecretsResolve ==
    /\ scanPc = "secrets"
    /\ scanPc' = "waiting"
    /\ extractorProgress' = [extractorProgress EXCEPT !.text = "Scanning complete"]
    /\ UNCHANGED <<startScanBtn, scansRunning, scansStarted, totalFiles, filesProcessed,
                   hideTimers, scanExit, scanRest>>

\* The wait is over: the loop over the JavaScript files begins.
WaitOver ==
    /\ scanPc = "waiting"
    /\ scanPc' = "endpoints"
    /\ UNCHANGED <<startScanBtn, scansRunning, scansStarted, totalFiles, filesProcessed,
                   extractorProgress, hideTimers, scanExit, scanRest>>

\* One file of the loop: its content is read and searched; an error here is
\* caught within the loop.
ExtractFile ==
    /\ scanPc = "endpoints"
    /\ filesProcessed < totalFiles
    /\ filesProcessed' = filesProcessed + 1
    /\ UNCHANGED <<startScanBtn, scanPc, scansRunning, scansStarted, totalFiles,
                   extractorProgress, hideTimers, scanExit, scanRest>>

\* The loop is done and the results are rendered.
ScanCompletes ==
    /\ scanPc = "endpoints"
    /\ filesProcessed = totalFiles
    /\ scanReturns("completed", "")

\* An import or the scan for secrets rejects, or rendering throws.
ScanThrows ==
    /\ \/ scanPc \in {"importing", "secrets"}
       \/ scanPc = "endpoints" /\ filesProcessed = totalFiles
    /\ scanReturns("exception", "Scan failed")

\* A timer set by the handler hides the progress box.
HideProgress ==
    /\ hideTimers > 0
    /\ hideTimers' = hideTimers - 1
    /\ extractorProgress' = [extractorProgress EXCEPT !.display = "none"]
    /\ UNCHANGED <<startScanBtn, scanPc, scansRunning, scansStarted, totalFiles, filesProcessed,
                   scanExit, scanRest>>

NextScan ==
    \/ ClickStartScan
    \/ ImportsResolve
    \/ SecretsResolve
    \/ WaitOver
    \/ ExtractFile
    \/ ScanCompletes
    \/ ScanThrows
    \/ HideProgress

SpecScan == Init /\ [][NextScan]_vars

(***************************************************************************)
(* The history of the raw request editor as a state machine: the undo and   *)
(* redo buttons of main.js 340-374                                          *)
(***************************************************************************)
MaxHistory == 3

Texts == {"", "GET /a", "GET /b"}

historyRest ==
    <<comparatorVars, normalizeVars, logVars, replayVars, sessionVars, captureVars, scanVars>>

\* What every operation on the editor notes: the operation and the text shown
\* before it, and the same of the operation before.
noted(operation) ==
    /\ historyOp' = operation
    /\ lastShown' = rawRequestInput
    /\ prevOp' = historyOp
    /\ prevShown' = lastShown

\* Fault variant of undo: only an empty stack stops it.
undoFromLastEntry ==
    /\ IF Len(undoStack) < 1
       THEN /\ noted("undo ignored")
            /\ UNCHANGED <<rawRequestInput, undoStack, redoStack, historyEmitted>>
       ELSE LET popped == SubSeq(undoStack, 1, Len(undoStack) - 1)
            IN /\ noted("undo")
               /\ redoStack' = Append(redoStack, rawRequestInput)
               /\ undoStack' = popped
               /\ IF Len(popped) > 0
                  THEN rawRequestInput' = popped[Len(popped)] /\ historyEmitted' = TRUE
                  ELSE UNCHANGED rawRequestInput /\ historyEmitted' = FALSE
    /\ UNCHANGED historyRest

\* The click on undo.
undo ==
    /\ IF Len(undoStack) <= 1
       THEN /\ noted("undo ignored")
            /\ UNCHANGED <<rawRequestInput, undoStack, redoStack, historyEmitted>>
       ELSE LET popped == SubSeq(undoStack, 1, Len(undoStack) - 1)
            IN /\ noted("undo")
               /\ redoStack' = Append(redoStack, rawRequestInput)
               /\ undoStack' = popped
               /\ IF Len(popped) > 0
                  THEN rawRequestInput' = popped[Len(popped)] /\ historyEmitted' = TRUE
                  ELSE UNCHANGED rawRequestInput /\ historyEmitted' = FALSE
    /\ UNCHANGED historyRest

\* The click on redo.
redo ==
    /\ IF Len(redoStack) = 0
       THEN /\ noted("redo ignored")
            /\ UNCHANGED <<rawRequestInput, undoStack, redoStack, historyEmitted>>
       ELSE LET nextContent == redoStack[Len(redoStack)]
            IN /\ noted("redo")
               /\ redoStack' = SubSeq(redoStack, 1, Len(redoStack) - 1)
               /\ undoStack' = Append(undoStack, nextContent)
               /\ rawRequestInput' = nextContent
               /\ historyEmitted' = TRUE
    /\ UNCHANGED historyRest

\* The user types in the editor (the editor's input handling is not among the
\* sources).
Edit ==
    /\ \E text \in Texts \ {rawRequestInput} : rawRequestInput' = text
    /\ noted("edit")
    /\ UNCHANGED <<undoStack, redoStack, historyEmitted, historyRest>>

\* The text shown is put on the undo stack (the code that does it is not among
\* the sources).
SaveUndoState ==
    /\ Len(undoStack) + Len(redoStack) < MaxHistory
    /\ undoStack' = Append(undoStack, rawRequestInput)
    /\ noted("save")
    /\ UNCHANGED <<rawRequestInput, redoStack, historyEmitted, historyRest>>

NextHistory ==
    \/ undo
    \/ redo
    \/ Edit
    \/ SaveUndoState

SpecHistory == Init /\ [][NextHistory]_vars

(***************************************************************************)
(* Properties                                                              *)
(***************************************************************************)
Called == op # "none"

Classified == op = "detectBypass"

ErrorSet == Truthy(replayedResponse.error)

StatusMatches == statusMatch(originalResponse, replayedResponse)

\* C1. Error dominance: whenever the replayed response has its error indicator
\* set, compare returns ERROR whatever the statuses and bodies, and detectBypass
\* returns bypass=false, severity NONE, message "Request failed" for every privilege.
C1_ErrorDominance ==
    (Called /\ ErrorSet) =>
        /\ result = "ERROR"
        /\ Classified => verdict = BypassVerdict(FALSE, "NONE", "ERROR", "Request failed")

\* A low-privilege replay that failed, of a response it would otherwise equal.
C1_Witness ==
    /\ Classified /\ ErrorSet
    /\ sessionPrivilege = low
    /\ StatusMatches
    /\ Truthy(originalResponse.body)
    /\ originalResponse.body = replayedResponse.body
    /\ verdict.message = "Request failed"

\* C2 as stated: for every pair of responses whose status codes differ, compare
\* returns DIFFERENT.
C2_AsStated == (Called /\ ~StatusMatches) => result = "DIFFERENT"

\* C2 as amended. Status-dominant classification: when the status codes differ,
\* compare never returns SAME or SIMILAR whatever the bodies; it returns DIFFERENT
\* unless the replayed response has its error indicator set, and ERROR then.
C2_StatusDominant ==
    (Called /\ ~StatusMatches) =>
        /\ result \notin {"SAME", "SIMILAR"}
        /\ result = IF ErrorSet THEN "ERROR" ELSE "DIFFERENT"

\* Two identical non-empty bodies under different statuses.
C2_Witness ==
    /\ Called /\ ~StatusMatches /\ ~ErrorSet
    /\ Truthy(originalResponse.body)
    /\ originalResponse.body = replayedResponse.body
    /\ result = "DIFFERENT"

\* C3. For a low-privilege session detectBypass returns bypass=true exactly when
\* compare yields SAME or SIMILAR, severity HIGH for SAME and MEDIUM for SIMILAR,
\* the result field is the verdict of compare, and DIFFERENT gives bypass=false,
\* severity NONE.
C3_LowPrivilege ==
    (Classified /\ sessionPrivilege = low) =>
        /\ ~verdict.threw
        /\ verdict.result = result
        /\ verdict.bypass <=> result \in {"SAME", "SIMILAR"}
        /\ result = "SAME" => verdict.severity = "HIGH"
        /\ result = "SIMILAR" => verdict.severity = "MEDIUM"
        /\ result = "DIFFERENT" => verdict.severity = "NONE"

\* A low-privilege session whose response has the status and another body.
C3_Witness ==
    /\ Classified /\ sessionPrivilege = low
    /\ result = "SIMILAR"
    /\ verdict.bypass /\ verdict.severity = "MEDIUM"

\* C4. For a medium-privilege session detectBypass returns bypass=true, severity
\* MEDIUM, only when compare yields SAME; on SIMILAR or DIFFERENT the session is
\* not flagged: bypass=false, severity NONE.
C4_MediumPrivilege ==
    (Classified /\ sessionPrivilege = medium) =>
        /\ verdict.bypass <=> result = "SAME"
        /\ verdict.severity = IF result = "SAME" THEN "MEDIUM" ELSE "NONE"
        /\ verdict.result = result

\* A medium-privilege session that received a SIMILAR response and is not flagged.
C4_Witness ==
    /\ Classified /\ sessionPrivilege = medium
    /\ result = "SIMILAR"
    /\ ~verdict.bypass /\ verdict.severity = "NONE"

\* C5. High-privilege never flagged: for every pair of responses, detectBypass with
\* privilege high returns bypass=false and severity NONE.
C5_HighNeverFlagged ==
    (Classified /\ sessionPrivilege = high) => (~verdict.bypass /\ verdict.severity = "NONE")

\* A high-privilege session that received the SAME response.
C5_Witness ==
    /\ Classified /\ sessionPrivilege = high
    /\ result = "SAME" /\ Truthy(replayedResponse.body)
    /\ ~verdict.bypass

\* C6. When the status codes are equal, the replayed response has no error and the
\* two normalized bodies are equal, compare returns SAME.
C6_SameWhenNormalizedEqual ==
    (/\ Called /\ StatusMatches /\ ~ErrorSet
     /\ normalizeBody(originalResponse.body) = normalizeBody(replayedResponse.body))
        => result = "SAME"

\* Two bodies that differ as received and are equal once normalized.
C6_Witness ==
    /\ Called /\ StatusMatches /\ ~ErrorSet
    /\ Truthy(originalResponse.body) /\ Truthy(replayedResponse.body)
    /\ originalResponse.body # replayedResponse.body
    /\ normalizeBody(originalResponse.body) = normalizeBody(replayedResponse.body)
    /\ result = "SAME"

C8_AsStated ==
    (Called /\ (Truthy(originalResponse.error) \/ Truthy(replayedResponse.error)))
        => result = "ERROR"

\* C8 as amended. Only the replayed response's error indicator is read: with it
\* set compare returns ERROR; without it the verdict is the one status and bodies
\* give, whether or not the original response carries an error indicator.
C8_ReplayedErrorOnly ==
    Called =>
        /\ ErrorSet => result = "ERROR"
        /\ ~ErrorSet =>
              /\ result # "ERROR"
              /\ result = compare([originalResponse EXCEPT !.error = Undefined], replayedResponse)

\* An original response that carries the error indicator and is compared as SAME.
C8_Witness ==
    /\ Called /\ Truthy(originalResponse.error) /\ ~ErrorSet
    /\ result = "SAME"

\* C9. Unknown privilege level: for every privilege outside {low, medium, high}
\* (undefined, the empty string, LOW in capitals) detectBypass returns bypass=false
\* and severity NONE for every pair of responses, and does not throw.
C9_UnknownPrivilege ==
    (Classified /\ sessionPrivilege \notin {low, medium, high}) =>
        /\ ~verdict.threw
        /\ ~verdict.bypass
        /\ verdict.severity = "NONE"

\* A session of privilege LOW, or of no privilege at all, that received the SAME
\* response.
C9_Witness ==
    /\ Classified /\ result = "SAME"
    /\ sessionPrivilege \in {Str(<<"L", "O", "W">>), Undefined}
    /\ ~verdict.bypass

\* The bodies that stand for no content: absent, null, the empty string.
EmptyBodies == {Undefined, Null, Str(<<>>)}

\* C10 as stated: normalizeBody maps an absent, null or empty body to the empty
\* string, so two responses with the same status whose bodies are each absent, null
\* or empty compare as SAME.
C10_AsStated ==
    Called =>
        /\ \A b \in {originalResponse.body, replayedResponse.body} :
              b \in EmptyBodies => normalizeBody(b) = <<>>
        /\ (/\ StatusMatches
            /\ originalResponse.body \in EmptyBodies
            /\ replayedResponse.body \in EmptyBodies) => result = "SAME"

\* C10 as amended. Empty-body equivalence: normalizeBody maps an absent, null or
\* empty body to the empty string, so two responses with the same status whose
\* bodies are each absent, null or empty compare as SAME when the replayed
\* response has no error indicator set (and as ERROR when it has).
C10_EmptyBodyEquivalence ==
    Called =>
        /\ \A b \in {originalResponse.body, replayedResponse.body} :
              b \in EmptyBodies => normalizeBody(b) = <<>>
        /\ (/\ StatusMatches
            /\ originalResponse.body \in EmptyBodies
            /\ replayedResponse.body \in EmptyBodies)
              => result = IF ErrorSet THEN "ERROR" ELSE "SAME"

\* The empty string against null, same status.
C10_Witness ==
    /\ Called /\ StatusMatches /\ ~ErrorSet
    /\ originalResponse.body = Str(<<>>)
    /\ replayedResponse.body = Null
    /\ result = "SAME"

Range(seq) == {seq[i] : i \in 1..Len(seq)}

\* C14. The comparison pipeline is total: for responses whose body is text or
\* absent (broken JSON included) and whose status may be absent, compare returns
\* one of SAME, SIMILAR, DIFFERENT, ERROR and detectBypass returns a verdict
\* record; nothing is raised, and a body that is not JSON is normalized as text.
C14_Total ==
    Called =>
        /\ result \in {"SAME", "SIMILAR", "DIFFERENT", "ERROR"}
        /\ "throw" \notin Range(steps)
        /\ Classified =>
              /\ ~verdict.threw
              /\ verdict.bypass \in BOOLEAN
              /\ verdict.severity \in {"NONE", "MEDIUM", "HIGH"}
              /\ verdict.result = result
        /\ \A b \in {originalResponse.body, replayedResponse.body} :
              (Truthy(b) /\ ~JSONparse(b.s).ok) => normalizeBody(b) = normalizeText(b.s)

\* Broken JSON against an absent body, both statuses absent.
C14_Witness ==
    /\ Classified /\ ~ErrorSet
    /\ originalResponse.body = Str(Malformed)
    /\ replayedResponse.body = Undefined
    /\ originalResponse.status = Undefined /\ replayedResponse.status = Undefined
    /\ result = "SIMILAR" /\ ~verdict.threw

\* C15 as stated: when the replayed response's error indicator is set, compare
\* returns ERROR before any status comparison is computed and before either body
\* is normalized.
C15_AsStated ==
    (Called /\ ErrorSet) =>
        /\ result = "ERROR"
        /\ Range(steps) \cap {"statusMatch", "normalizeOriginal", "normalizeReplayed"} = {}

\* C15 as amended. When the replayed response's error indicator is set, compare
\* returns ERROR before either body is normalized; the status comparison is
\* computed before the error indicator is tested, and its value is not used.
C15_ErrorBeforeNormalization ==
    (Called /\ ErrorSet) =>
        /\ result = "ERROR"
        /\ steps = <<"statusMatch", "errorCheck", "return">>

\* A failed replay whose bodies are both present.
C15_Witness ==
    /\ Called /\ ErrorSet
    /\ Truthy(originalResponse.body) /\ Truthy(replayedResponse.body)
    /\ "normalizeOriginal" \notin Range(steps)
    /\ steps[1] = "statusMatch"

NotJson(body) == ~JSONparse(body.s).ok

\* C11 as stated: normalizeBody gives one text for a JSON document and for any
\* document that differs from it in the order of keys at any depth, hence two
\* responses of one status whose bodies differ only so, or in whitespace between
\* tokens, compare as SAME.
C11_AsStated ==
    relation = "keyOrder" =>
        /\ normalized[1] = normalized[2]
        /\ result = "SAME"

\* C11 as amended: normalizeBody gives one text for both documents, and the two
\* responses compare as SAME when the replayed one carries no error indicator.
C11_KeyOrderInvariance ==
    relation = "keyOrder" =>
        /\ normalized[1] = normalized[2]
        /\ ~ErrorSet => result = "SAME"

\* Keys reordered inside a nested object, array-index keys among them, and another
\* layout: two different texts that compare as SAME.
C11_Witness ==
    /\ relation = "keyOrder"
    /\ documents[1] \in NestedObjects
    /\ documents[2].props[1][1] = <<"o">>
    /\ Keys(documents[1].props[1][2].props) # Keys(documents[2].props[1][2].props)
    /\ \E i \in 1..Len(documents[1].props[1][2].props) :
          IsArrayIndex(documents[1].props[1][2].props[i][1])
    /\ bodies[1] # bodies[2]
    /\ ~ErrorSet /\ result = "SAME"

\* C12. Two bodies that are not valid JSON and differ only in the length of
\* whitespace runs, in whitespace at the ends, or in whitespace directly between
\* a '>' and the next '<' have the same normalizeBody output.
C12_WhitespaceInvariance ==
    (relation = "whitespace" /\ NotJson(bodies[1]) /\ NotJson(bodies[2])) =>
        normalized[1] = normalized[2]

\* Markup with and without whitespace between tags, and runs of different length.
C12_Witness ==
    /\ relation = "whitespace"
    /\ NotJson(bodies[1]) /\ NotJson(bodies[2])
    /\ bodies[1].s = <<"<", "p", ">", "<", "b", ">", " ", "x">>
    /\ bodies[2].s = <<"<", "p", ">", " ", "\n", "<", "b", ">", " ", " ", "x">>
    /\ normalized[2] = bodies[1].s

\* C13. Normalizing canonical JSON again changes nothing: for a document v,
\* normalizeBody(normalizeBody(serialize(v))) = normalizeBody(serialize(v)).
C13_Idempotent ==
    (relation = "keyOrder" /\ renormalized # <<>>) => renormalized = normalized

\* An object written out of canonical order and with padding, normalized twice.
C13_Witness ==
    /\ relation = "keyOrder" /\ renormalized # <<>>
    /\ documents[1].k = "object"
    /\ Len(documents[1].props) = 2
    /\ bodies[1].s # normalized[1]
    /\ Keys(documents[1].props) # SortKeys(Keys(documents[1].props))
    /\ renormalized[1] = normalized[1]

\* What has been recorded since the last clear.
Submitted == SubSeq(history, clearedAt + 1, Len(history))

HasBypass(result_) == \E i \in 1..Len(result_.sessionResults) : result_.sessionResults[i].comparison.bypass

\* C16. The result log is append-only and keeps the order of submission: with no
\* clear in between, it holds every recorded result as many times as it was
\* recorded, in the order of recording; nothing is dropped as a duplicate, moved
\* or evicted.
C16_AppendOnly ==
    /\ results = Submitted
    /\ panel.count = Len(Submitted)

\* The same result recorded twice, then another one.
C16_Witness ==
    /\ logOp = "record"
    /\ Len(results) = 3
    /\ results[1] = results[2]
    /\ results[3] # results[1]
    /\ HasBypass(results[1])

\* C17. clear empties the log as a whole: right after it the log (and the panel)
\* holds nothing, and the log never shrinks to anything but the empty log.
C17_ClearIsWhole ==
    /\ [](logOp = "clear" => (results = <<>> /\ panel.count = 0 /\ panel.cards = <<>>))
    /\ [][Len(results') < Len(results) => results' = <<>>]_vars

\* A clear of a log of several results.
C17_Witness ==
    /\ logOp = "clear"
    /\ clearedAt = 2 /\ Len(history) = 2
    /\ history[1] # history[2]
    /\ results = <<>> /\ panel.count = 0

\* The session results of severity HIGH in the log, one by one.
HighEntries ==
    UNION {{<<i, j>> : j \in {k \in 1..Len(results[i].sessionResults) :
                                  results[i].sessionResults[k].comparison.severity = "HIGH"}} :
           i \in 1..Len(results)}

\* C18. criticalCount is the number of session results of severity HIGH over all
\* results in the log: MEDIUM and NONE do not count, and a result with several
\* HIGH session results counts once for each; the badge shows that number after a
\* result is recorded, and is hidden when it is zero.
C18_CriticalCount ==
    /\ getCriticalCount(results) = Cardinality(HighEntries)
    /\ logOp = "record" =>
          IF Cardinality(HighEntries) > 0
          THEN badge = [textContent |-> Cardinality(HighEntries), display |-> "inline-block"]
          ELSE badge.display = "none"

\* A result with two HIGH session results and one with a HIGH and a MEDIUM.
C18_Witness ==
    /\ logOp = "record"
    /\ Len(results) = 2
    /\ \A i \in 1..2 : Len(results[i].sessionResults) = 2
    /\ \A j \in 1..2 : results[1].sessionResults[j].comparison.severity = "HIGH"
    /\ results[2].sessionResults[1].comparison.severity = "HIGH"
    /\ results[2].sessionResults[2].comparison.severity = "MEDIUM"
    /\ badge.textContent = 3

\* The warnings due for the results with a bypass recorded so far.
WarningsDue ==
    LET withBypass == SelectSeq(history, HasBypass)
    IN [k \in 1..Len(withBypass) |-> BypassWarning(withBypass[k])]

\* C19. Recording and notification are one step: a result with a bypass enters the
\* log in the very step that warns of it (and renders it), and a warning is given
\* only in a step that records such a result; so the warnings given are at all
\* times those of the results recorded.
C19_RecordNotifies ==
    /\ [](warnings = WarningsDue)
    /\ [][/\ (Len(results') > Len(results) /\ HasBypass(results'[Len(results')])) =>
                /\ warnings' = Append(warnings, BypassWarning(results'[Len(results')]))
                /\ panel' = renderResults(results')
          /\ warnings' # warnings =>
                /\ Len(results') = Len(results) + 1
                /\ results' = Append(results, history'[Len(history')])
                /\ HasBypass(results'[Len(results')])]_vars

\* A result without a bypass recorded silently, then one with a bypass and its
\* warning.
C19_Witness ==
    /\ logOp = "record"
    /\ Len(results) = 2
    /\ ~HasBypass(results[1]) /\ HasBypass(results[2])
    /\ Len(results[2].sessionResults) = 2
    /\ warnings = <<BypassWarning(results[2])>>
    /\ panel.cards[1].bypasses > 0

\* C20. When several sessions are replayed at once for one request, the
\* sessionResults of the resulting AuthCheckResult hold one entry for each active
\* session tested, in the order the sessions were tested, with the verdict of that
\* session's replay, whatever the order in which the replays complete.
C20_TestOrder ==
    replayOp = "done" =>
        /\ Len(checkResult.sessionResults) = Len(tested)
        /\ \A i \in 1..Len(tested) :
              /\ checkResult.sessionResults[i].sessionName = tested[i]
              /\ \E k \in 1..Len(completion) :
                    completion[k] = <<tested[i], checkResult.sessionResults[i].comparison>>

\* Three sessions whose replays complete in the reverse of the test order, with
\* different verdicts.
C20_Witness ==
    /\ replayOp = "done"
    /\ Len(tested) = 3
    /\ \A k \in 1..3 : completion[k][1] = tested[4 - k]
    /\ completion[1][2] # completion[3][2]
    /\ checkResult.sessionResults[1].sessionName = tested[1]

\* C22. The verdict record of detectBypass is consistent: bypass is true exactly
\* when severity is MEDIUM or HIGH, severity LOW does not occur, bypass is never
\* true for DIFFERENT or ERROR, and the result field is what compare returns for
\* the two responses.
C22_VerdictConsistent ==
    Classified =>
        /\ verdict.bypass <=> verdict.severity \in {"MEDIUM", "HIGH"}
        /\ verdict.severity \in {"NONE", "MEDIUM", "HIGH"}
        /\ verdict.result \in {"DIFFERENT", "ERROR"} => ~verdict.bypass
        /\ verdict.result = compare(originalResponse, replayedResponse)

\* A flagged verdict of each severity is in reach; this one is MEDIUM for SIMILAR.
C22_Witness ==
    /\ Classified
    /\ verdict.bypass /\ verdict.severity = "MEDIUM" /\ verdict.result = "SIMILAR"
    /\ sessionPrivilege = low

BothNormalizeEmpty ==
    /\ normalizeBody(originalResponse.body) = <<>>
    /\ normalizeBody(replayedResponse.body) = <<>>

\* C23. The both-empty guard of compare decides nothing: it is never reached,
\* because two bodies that normalize to the empty text have passed the test for
\* SAME when the status matches; compare never returns SIMILAR for them.
C23_GuardUnreachable ==
    Called =>
        /\ "bothEmpty" \notin Range(steps)
        /\ BothNormalizeEmpty => result # "SIMILAR"
        /\ (~ErrorSet /\ StatusMatches /\ BothNormalizeEmpty) =>
              /\ result = "SAME"
              /\ steps[Len(steps) - 1] = "testSame"

\* A blank body against an absent one: different as they came, empty once
\* normalized, and SAME by the equality test.
C23_Witness ==
    /\ Called /\ ~ErrorSet /\ StatusMatches
    /\ originalResponse.body = Str(Spaces(2))
    /\ replayedResponse.body = Undefined
    /\ result = "SAME"
    /\ "testBothEmpty" \notin Range(steps)

\* C24. compare is symmetric and reflexive on responses without the error
\* indicator: swapping the two responses gives the same verdict, and a response
\* compared with itself is SAME.
C24_SymmetricReflexive ==
    (Called /\ ~Truthy(originalResponse.error) /\ ~Truthy(replayedResponse.error)) =>
        /\ compare(replayedResponse, originalResponse) = result
        /\ originalResponse = replayedResponse => result = "SAME"
        /\ compare(originalResponse, originalResponse) = "SAME"

\* Two bodies of different length under one status: SIMILAR both ways.
C24_Witness ==
    /\ Called /\ ~Truthy(originalResponse.error) /\ ~Truthy(replayedResponse.error)
    /\ StatusMatches
    /\ Len(normalizeBody(originalResponse.body)) > Len(normalizeBody(replayedResponse.body))
    /\ Len(normalizeBody(replayedResponse.body)) > 0
    /\ result = "SIMILAR"
    /\ compare(replayedResponse, originalResponse) = "SIMILAR"

IsBlank(body) == body.k = "string" /\ Len(body.s) > 0 /\ \A i \in 1..Len(body.s) : IsSpace(body.s[i])

\* A blank body on one side and an absent or empty body on the other, equal status.
BlankAgainstEmpty ==
    /\ StatusMatches
    /\ \/ IsBlank(originalResponse.body) /\ replayedResponse.body \in EmptyBodies
       \/ IsBlank(replayedResponse.body) /\ originalResponse.body \in EmptyBodies

\* C25 as stated: a body of whitespace only normalizes to the empty text, so with
\* equal status it compares as SAME against an absent or empty body, and a
\* low-privilege session is then flagged HIGH.
C25_AsStated ==
    (Called /\ BlankAgainstEmpty) =>
        /\ BothNormalizeEmpty
        /\ result = "SAME"
        /\ (Classified /\ sessionPrivilege = low) =>
              (verdict.bypass /\ verdict.severity = "HIGH")

\* C25 as amended: the same, when the replayed response carries no error
\* indicator; with it the verdict is ERROR and nothing is flagged.
C25_BlankIsEmpty ==
    (Called /\ BlankAgainstEmpty) =>
        /\ BothNormalizeEmpty
        /\ ~ErrorSet =>
              /\ result = "SAME"
              /\ (Classified /\ sessionPrivilege = low) =>
                    (verdict.bypass /\ verdict.severity = "HIGH")
        /\ ErrorSet => (result = "ERROR" /\ (Classified => ~verdict.bypass))

\* A blank replayed body against an absent original one, for a low-privilege
\* session.
C25_Witness ==
    /\ Classified /\ BlankAgainstEmpty /\ ~ErrorSet
    /\ IsBlank(replayedResponse.body)
    /\ originalResponse.body = Undefined
    /\ sessionPrivilege = low
    /\ verdict.severity = "HIGH"

C26_BadgeTracksLog ==
    LET criticalCount == getCriticalCount(results)
    IN /\ (badge.display # "none") <=> (criticalCount > 0)
       /\ badge.display # "none" => badge.textContent = criticalCount

\* C27. While state.blockRequests is true a captured request is processed (added
\* to the request list) at once only if the request list and the blocked queue
\* are both empty at that moment; every other captured request goes to the tail
\* of state.blockedQueue with one 'block-queue:updated' event; while blocking is
\* off every captured request is processed at once.  No captured request is
\* dropped or processed twice, and the queue keeps the arrival order.
C27_Blocking ==
    /\ [](\A i \in 1..Len(arrivals) :
             Cardinality({k \in 1..Len(processed) : processed[k] = i})
                 + Cardinality({k \in 1..Len(blockedQueue) : blockedQueue[k].id = i}) = 1)
    /\ [](\A j \in 1..Len(blockedQueue), k \in 1..Len(blockedQueue) :
             j < k => blockedQueue[j].id < blockedQueue[k].id)
    /\ [][Len(arrivals') = Len(arrivals) + 1 =>
             LET request == arrivals'[Len(arrivals')]
             IN IF ~blockRequests \/ (Len(requests) = 0 /\ Len(blockedQueue) = 0)
                THEN /\ Len(requests') = Len(requests) + 1
                     /\ requests'[Len(requests')].id = request.id
                     /\ SubSeq(requests', 1, Len(requests)) = requests
                     /\ blockedQueue' = blockedQueue
                     /\ blockEvents' = blockEvents
                ELSE /\ blockedQueue' = Append(blockedQueue, request)
                     /\ requests' = requests
                     /\ blockEvents' = blockEvents + 1]_vars

\* Blocking is on and the list has been emptied while a request waits: the next
\* request has been queued behind it.
C27_Witness ==
    /\ blockRequests
    /\ Len(requests) = 0
    /\ Len(blockedQueue) = 2
    /\ Len(processed) = 1
    /\ blockEvents = 2

\* C28. Test Auth button: processRequest is called only when the analyzer is
\* enabled, a swap cookie is configured and the selected item's index has a
\* request; from the call until processRequest settles the button is disabled, so
\* at most one test started from the button is in flight; when processRequest
\* rejects the button is enabled at once, and when it resolves the button is
\* enabled again eventually.
C28_ButtonDiscipline ==
    /\ [](pending \in {0, 1})
    /\ [](pending = 1 => testAuthBtn.disabled /\ replayOp = "testing")
    /\ [][pending' > pending =>
             /\ clickedWith'.enabled /\ clickedWith'.swapCookie
             /\ clickedWith'.selectedItem # NoItem
             /\ clickedWith'.selectedItem < clickedWith'.listed
             /\ ~testAuthBtn.disabled]_vars
    /\ [][(pending' < pending /\ replayOp' = "failed") => ~testAuthBtn'.disabled]_vars
    /\ ((replayOp = "done" /\ testAuthBtn.disabled) ~> ~testAuthBtn.disabled)

\* The test of the second of two listed requests has resolved and the timer has
\* put the button back.
C28_Witness ==
    /\ replayOp = "done"
    /\ pending = 0
    /\ testAuthBtn = ButtonIdle
    /\ Len(checkResult.sessionResults) = 2
    /\ clickedWith.selectedItem = 1 /\ clickedWith.listed = 2

\* C29. Extractor scan: the start-scan button is disabled from the click until
\* the handler finishes and is enabled again on every exit path (no captured
\* requests, no JavaScript files, exception, normal completion), so at most one
\* scan runs at a time and the button is not left disabled after a scan ends.
C29_ScanButton ==
    /\ [](scansRunning \in {0, 1})
    /\ [](startScanBtn.disabled <=> scansRunning = 1)
    /\ [](scansRunning = 1 <=> scanPc # "idle")
    /\ [][scansRunning' < scansRunning =>
             /\ ~startScanBtn'.disabled
             /\ scanExit' \in {"noRequests", "noJs", "exception", "completed"}]_vars
    /\ [][scansRunning' > scansRunning => ~startScanBtn.disabled /\ startScanBtn'.disabled]_vars

\* A scan that ended on the early return for want of requests, and after it a
\* second scan stands in the loop over its files.
C29_Witness ==
    /\ scanExit = "noRequests"
    /\ scansStarted = 2
    /\ scanPc = "endpoints"
    /\ filesProcessed = 1 /\ totalFiles = 2
    /\ startScanBtn.disabled

\* C30. Undo and redo of the raw request editor: undo has no effect while the undo
\* stack holds at most one entry, so clicks on undo and redo never empty an undo
\* stack that holds an entry; and an undo that takes effect, followed at once by a
\* redo, brings back the text the editor showed before the undo.
C30_UndoRedo ==
    /\ [][(historyOp' \in {"undo", "undo ignored"} /\ Len(undoStack) <= 1) =>
             /\ historyOp' = "undo ignored"
             /\ UNCHANGED <<rawRequestInput, undoStack, redoStack>>]_vars
    /\ [][(historyOp' \in {"undo", "undo ignored", "redo", "redo ignored"} /\ Len(undoStack) > 0) =>
             Len(undoStack') > 0]_vars
    /\ []((historyOp = "redo" /\ prevOp = "undo") => rawRequestInput = prevShown)

\* An undo that changed the text shown, which had been edited since it was last
\* saved, and the redo after it.
C30_Witness ==
    /\ historyOp = "redo" /\ prevOp = "undo"
    /\ rawRequestInput = "GET /b"
    /\ lastShown = "GET /a"
    /\ undoStack = <<"GET /a", "GET /b">>
    /\ redoStack = <<>>

====
